---- MODULE Spec2Model ----
(***************************************************************************)
(* A model of the lazy stream adapters of @alg/stream (main.js).           *)
(*                                                                         *)
(* One adapter instance is modelled at a time.  A call action (window,     *)
(* chunk, dedup, scan, zip, cycle, take, drop, takeWhile, dropWhile, peek, *)
(* flatMap) is the adapter call itself: it validates its arguments and     *)
(* creates the generator or iterator helper.  A next action (windowNext,   *)
(* ...) is one next() on the produced sequence: the body runs from the     *)
(* yield it is suspended at to its next yield, return or throw.            *)
(* Sources are iterators with a cursor; an iterator that has a return()    *)
(* method (a generator, an iterator helper) can be closed, an array or     *)
(* string iterator cannot.                                                 *)
(***************************************************************************)
EXTENDS Integers, Sequences, FiniteSets, TLC

VARIABLES op, pc, iterables, options, locals, out, result, error, log

vars == <<op, pc, iterables, options, locals, out, result, error, log>>

\* op         the adapter that was called
\* pc         "idle" before the call, "rejected" when the call threw, else the
\*            generator's position: "start", the line of the yield it is
\*            suspended at, or "completed"
\* iterables  the source iterators, each with its elements and cursor
\* options    the parameters of the call
\* locals     the local variables of the generator body
\* out        the values yielded so far
\* result     the outcome of the last next(): "value", "done" or "throw"
\* error      the message of the Error thrown by the call or by a next()
\* log        the arguments of the callback invocations made so far
TypeOK ==
    /\ op \in {"none", "window", "chunk", "dedup", "scan", "zip",
               "zipShortest", "zipLongest", "zipStrict", "cycle", "take",
               "drop", "takeWhile", "dropWhile", "peek", "flatMap", "chain",
               "filter", "map", "mapFilter"}
    /\ pc \in {"idle", "rejected", "start", "completed", "L29", "L46", "L51", "L54",
               "L64", "L70", "L80", "L84", "L95", "L108", "L109", "L114", "L120", "L135",
               "L142", "L172", "L176", "L185", "L193", "L211", "L216",
               "L255", "L275", "L293"}
    /\ result \in {"none", "value", "done", "throw"}
    /\ \A j \in 1..Len(iterables) :
           /\ iterables[j].pos \in 0..Len(iterables[j].data)
           /\ iterables[j].nexts >= iterables[j].pos
           /\ iterables[j].closed => iterables[j].closable
    /\ (pc = "rejected") = (op # "none" /\ error # "" /\ result = "none")
    /\ (result = "throw") => (pc = "completed" /\ error # "")
    /\ pc \in {"idle", "rejected", "start"} => out = <<>>

----------------------------------------------------------------------------
(* Bounds of the model *)

MaxLen == 4

MaxSize == 3

MaxSources == 2

MaxZipLen == 2

----------------------------------------------------------------------------
(* Values *)

\* JavaScript's undefined: the value of a parameter that was not passed, and
\* a value a caller may pass or a source may hold like any other.
Undefined == 0

\* The elements the callbacks compute with.
Numbers == {1, 2, 3}

Values == {Undefined} \cup Numbers

ChunkValues == {Undefined, 1, 2}

ZipValues == {1, 2}

NoError == ""

Max(a, b) == IF a >= b THEN a ELSE b

Min(a, b) == IF a <= b THEN a ELSE b

SeqsUpTo(S, n) == UNION {[1..m -> S] : m \in 0..n}

----------------------------------------------------------------------------
(* Iterators *)

\* iter(iterable): a fresh cursor over the iterable's elements.
iter(data, closable) ==
    [data |-> data, pos |-> 0, nexts |-> 0, closable |-> closable,
     closed |-> FALSE]

\* it.next()
IterNext(it) ==
    IF it.closed \/ it.pos >= Len(it.data)
    THEN [done |-> TRUE, value |-> Undefined,
          it |-> [it EXCEPT !.nexts = @ + 1]]
    ELSE [done |-> FALSE, value |-> it.data[it.pos + 1],
          it |-> [it EXCEPT !.pos = @ + 1, !.nexts = @ + 1]]

\* IteratorClose: it.return() when the iterator has that method.
IterReturn(it) == IF it.closable THEN [it EXCEPT !.closed = TRUE] ELSE it

RECURSIVE Spread(_)
\* [...it]: the elements the iterator still produces.
Spread(it) ==
    LET r == IterNext(it)
    IN  IF r.done THEN <<>> ELSE <<r.value>> \o Spread(r.it)

\* One next() on the iterator helper of take(it, limit), remaining = the
\* number of elements it may still yield.
TakeNext(it, remaining) ==
    IF remaining = 0
    THEN [done |-> TRUE, value |-> Undefined, it |-> IterReturn(it),
          remaining |-> 0]
    ELSE LET r == IterNext(it)
         IN  [done |-> r.done, value |-> r.value, it |-> r.it,
              remaining |-> remaining - 1]

RECURSIVE SpreadTake(_, _, _)
\* [...take(it, limit)]: next() on the helper until it reports done.
SpreadTake(it, remaining, arr) ==
    LET r == TakeNext(it, remaining)
    IN  IF r.done THEN [arr |-> arr, it |-> r.it]
        ELSE SpreadTake(r.it, r.remaining, Append(arr, r.value))

----------------------------------------------------------------------------
(* Generator steps *)

NoOptions ==
    [size |-> 0, given |-> FALSE, strategy |-> "", fillValue |-> Undefined,
     eq |-> "", accumulator |-> "", initial |-> Undefined, limit |-> 0,
     predicate |-> "", mapping |-> "", throwsOn |-> Undefined]

NoLocals ==
    [arr |-> <<>>, front |-> 0, first |-> Undefined, e |-> Undefined,
     last |-> Undefined, acc |-> Undefined, i |-> 0, saved |-> <<>>,
     k |-> 0, inner |-> <<>>, remaining |-> 0, heap |-> <<>>,
     handed |-> <<>>]

Yield(label, its, loc, v, lg) ==
    [pc |-> label, iterables |-> its, locals |-> loc, result |-> "value",
     value |-> <<v>>, error |-> NoError, log |-> lg]

Return(its, loc, lg) ==
    [pc |-> "completed", iterables |-> its, locals |-> loc, result |-> "done",
     value |-> <<>>, error |-> NoError, log |-> lg]

\* Mutant of Throw: the generator that threw can be resumed from its start.
ThrowAndGoOn(its, loc, lg, message) ==
    [pc |-> "start", iterables |-> its, locals |-> loc, result |-> "throw",
     value |-> <<>>, error |-> message, log |-> lg]

Throw(its, loc, lg, message) ==
    [pc |-> "completed", iterables |-> its, locals |-> loc, result |-> "throw",
     value |-> <<>>, error |-> message, log |-> lg]

\* The state after one next() whose generator body made the given step.
Resume(step) ==
    /\ pc' = step.pc
    /\ iterables' = step.iterables
    /\ locals' = step.locals
    /\ out' = out \o step.value
    /\ result' = step.result
    /\ error' = step.error
    /\ log' = step.log
    /\ UNCHANGED <<op, options>>

\* The adapter call returned a generator that has not started.
Created(name, its, opt) ==
    /\ pc = "idle"
    /\ op' = name
    /\ pc' = "start"
    /\ iterables' = its
    /\ options' = opt
    /\ UNCHANGED <<locals, out, result, error, log>>

\* The adapter call itself threw.
Rejected(name, its, opt, message) ==
    /\ pc = "idle"
    /\ op' = name
    /\ pc' = "rejected"
    /\ iterables' = its
    /\ options' = opt
    /\ error' = message
    /\ UNCHANGED <<locals, out, result, log>>

Suspended == pc \notin {"idle", "rejected", "completed"}

\* next() on a generator that has returned or thrown: {done: true}.
finishedNext ==
    /\ pc = "completed"
    /\ result' = "done"
    /\ UNCHANGED <<op, pc, iterables, options, locals, out, error, log>>

\* The caller's callback (predicate, mapping, consumer, eq or fold) throws
\* when it is called on the element options.throwsOn; Undefined: it never
\* throws.
CallbackError == "callback error"

Bang(e) == options.throwsOn # Undefined /\ e = options.throwsOn

----------------------------------------------------------------------------
(* window *)

Sources == {iter(d, c) : d \in SeqsUpTo(Numbers, MaxLen), c \in BOOLEAN}

Sizes == -1..MaxSize

\* Mutant of WindowArrays: every yield hands out arr itself.
WindowArraysHandsOutRing(loc, step) ==
    LET heap == <<step.locals.arr>> \o SubSeq(loc.heap, 2, Len(loc.heap))
    IN  [step EXCEPT !.locals =
            [@ EXCEPT !.heap = heap,
                      !.handed = IF step.value = <<>> THEN loc.handed
                                 ELSE Append(loc.handed, 1)]]

\* The array objects of window after a step: locals.heap holds the contents
\* of every array created so far and locals.handed the objects yielded.
\* Object 1 is arr, created by [...take(it, size)] and written in place by
\* arr[front] = e; every yield creates a new array, [...arr] or
\* arr.slice(front).concat(arr.slice(0, front)).
WindowArrays(loc, step) ==
    LET heap == <<step.locals.arr>> \o SubSeq(loc.heap, 2, Len(loc.heap))
                    \o step.value
    IN  [step EXCEPT !.locals =
            [@ EXCEPT !.heap = heap,
                      !.handed = IF step.value = <<>> THEN loc.handed
                                 ELSE Append(loc.handed, Len(heap))]]

\* Mutant of WindowBody: a slide advances front before it writes, so the
\* new element replaces the second oldest one.
WindowBodyWritesAfterAdvance(at, its, opt, loc) ==
    LET size == opt.size
        slide(front) ==
            LET r == IterNext(its[1])
            IN  IF r.done THEN Return(<<r.it>>, loc, log)
                ELSE LET f   == (front + 1) % size
                         arr == [loc.arr EXCEPT ![f + 1] = r.value]
                     IN  Yield("L216", <<r.it>>,
                               [loc EXCEPT !.arr = arr, !.front = f],
                               SubSeq(arr, f + 1, Len(arr)) \o SubSeq(arr, 1, f),
                               log)
        step ==
            CASE at = "start" ->
                   LET t == SpreadTake(its[1], size, <<>>)
                   IN  IF Len(t.arr) < size
                       THEN Return(<<t.it>>, [loc EXCEPT !.arr = t.arr], log)
                       ELSE Yield("L211", <<t.it>>, [loc EXCEPT !.arr = t.arr],
                                  t.arr, log)
              [] at = "L211" -> slide(0)
              [] at = "L216" -> slide(loc.front)
    IN  WindowArrays(loc, step)

WindowBody(at, its, opt, loc) ==
    LET size == opt.size
        slide(front) ==
            LET r == IterNext(its[1])
            IN  IF r.done THEN Return(<<r.it>>, loc, log)
                ELSE LET arr == [loc.arr EXCEPT ![front + 1] = r.value]
                         f   == (front + 1) % size
                     IN  Yield("L216", <<r.it>>,
                               [loc EXCEPT !.arr = arr, !.front = f],
                               SubSeq(arr, f + 1, Len(arr)) \o SubSeq(arr, 1, f),
                               log)
        step ==
            CASE at = "start" ->
                   LET t == SpreadTake(its[1], size, <<>>)
                   IN  IF Len(t.arr) < size
                       THEN Return(<<t.it>>, [loc EXCEPT !.arr = t.arr], log)
                       ELSE Yield("L211", <<t.it>>, [loc EXCEPT !.arr = t.arr],
                                  t.arr, log)
              [] at = "L211" -> slide(0)
              [] at = "L216" -> slide(loc.front)
    IN  WindowArrays(loc, step)

window(iterable, size) ==
    LET opt == [NoOptions EXCEPT !.size = size]
    IN  IF size <= 0
        THEN Rejected("window", <<iterable>>, opt,
                      "Cannot yield sliding windows of size <= 0")
        ELSE Created("window", <<iterable>>, opt)

windowCall ==
    /\ pc = "idle"
    /\ \E iterable \in Sources, size \in Sizes : window(iterable, size)

windowNext ==
    /\ op = "window"
    /\ Suspended
    /\ Resume(WindowBody(pc, iterables, options, locals))

----------------------------------------------------------------------------
(* chunk *)

ChunkStrategies == {"dropEnd", "keepEnd", "padEnd", "strict"}

RECURSIVE ChunkFill(_, _, _)
\* The for-of loop of chunk up to its next yield (full |-> TRUE) or to the
\* end of the source.
ChunkFill(it, arr, size) ==
    LET r == IterNext(it)
    IN  IF r.done THEN [full |-> FALSE, arr |-> arr, it |-> r.it]
        ELSE LET pushed == Append(arr, r.value)
             IN  IF Len(pushed) = size
                 THEN [full |-> TRUE, arr |-> pushed, it |-> r.it]
                 ELSE ChunkFill(r.it, pushed, size)

\* arr.length = size; Array.from(arr, (e) => e ?? fillValue)
PadEnd(arr, size, fillValue) ==
    [j \in 1..size |->
        IF j <= Len(arr) /\ arr[j] # Undefined THEN arr[j] ELSE fillValue]

\* Mutant of ChunkEnd: the leftover group is yielded whatever the strategy.
ChunkEndKeepsAlways(it, opt, loc, arr) ==
    IF Len(arr) # 0 THEN Yield("L51", <<it>>, loc, arr, log)
    ELSE Return(<<it>>, loc, log)

\* Mutant of ChunkEnd: keepEnd does not test that the leftover is non-empty.
ChunkEndKeepsEmpty(it, opt, loc, arr) ==
    IF opt.strategy = "keepEnd"
    THEN Yield("L51", <<it>>, loc, arr, log)
    ELSE IF opt.strategy = "padEnd" /\ Len(arr) # 0
    THEN Yield("L54", <<it>>, loc, PadEnd(arr, opt.size, opt.fillValue), log)
    ELSE IF opt.strategy = "strict" /\ Len(arr) # 0
    THEN Throw(<<it>>, loc, log, "Incomplete chunk")
    ELSE Return(<<it>>, loc, log)

\* Mutant of ChunkEnd: strict does not test that the leftover is non-empty.
ChunkEndStrictAlways(it, opt, loc, arr) ==
    IF opt.strategy = "keepEnd" /\ Len(arr) # 0
    THEN Yield("L51", <<it>>, loc, arr, log)
    ELSE IF opt.strategy = "padEnd" /\ Len(arr) # 0
    THEN Yield("L54", <<it>>, loc, PadEnd(arr, opt.size, opt.fillValue), log)
    ELSE IF opt.strategy = "strict"
    THEN Throw(<<it>>, loc, log, "Incomplete chunk")
    ELSE Return(<<it>>, loc, log)

\* What chunk does once its for-of loop has ended, arr the leftover group.
ChunkEnd(it, opt, loc, arr) ==
    IF opt.strategy = "keepEnd" /\ Len(arr) # 0
    THEN Yield("L51", <<it>>, loc, arr, log)
    ELSE IF opt.strategy = "padEnd" /\ Len(arr) # 0
    THEN Yield("L54", <<it>>, loc, PadEnd(arr, opt.size, opt.fillValue), log)
    ELSE IF opt.strategy = "strict" /\ Len(arr) # 0
    THEN Throw(<<it>>, loc, log, "Incomplete chunk")
    ELSE Return(<<it>>, loc, log)

\* Mutant of ChunkBody: a full group is yielded after one more element has
\* been read from the source.
ChunkBodyReadsAhead(at, its, opt, loc) ==
    LET loop(arr0) ==
            LET f == ChunkFill(its[1], arr0, opt.size)
                l == [loc EXCEPT !.arr = f.arr]
            IN  IF f.full
                THEN Yield("L46", <<IterNext(f.it).it>>, l, f.arr, log)
                ELSE ChunkEnd(f.it, opt, l, f.arr)
    IN  CASE at \in {"start", "L46"} -> loop(<<>>)
          [] at \in {"L51", "L54"} -> Return(its, loc, log)

\* The array objects of chunk after a step that began at let arr = [] or
\* arr = []: that new array is pushed to in place and is itself yielded when
\* it is full or kept as the trailing group; padEnd sets its length to size
\* and yields the new array of Array.from.
ChunkArrays(opt, loc, step) ==
    LET arr == step.locals.arr
        buffer == IF step.pc = "L54" THEN PadEnd(arr, opt.size, Undefined)
                  ELSE arr
        id == Len(loc.heap) + 1
    IN  [step EXCEPT !.locals =
            [@ EXCEPT !.heap = loc.heap \o <<buffer>>
                                  \o (IF step.pc = "L54" THEN step.value
                                                         ELSE <<>>),
                      !.handed = CASE step.pc \in {"L46", "L51"} ->
                                        Append(loc.handed, id)
                                   [] step.pc = "L54" ->
                                        Append(loc.handed, id + 1)
                                   [] OTHER -> loc.handed]]

ChunkBody(at, its, opt, loc) ==
    LET loop(arr0) ==
            LET f == ChunkFill(its[1], arr0, opt.size)
                l == [loc EXCEPT !.arr = f.arr]
            IN  IF f.full THEN Yield("L46", <<f.it>>, l, f.arr, log)
                ELSE ChunkEnd(f.it, opt, l, f.arr)
    IN  CASE at \in {"start", "L46"} -> ChunkArrays(opt, loc, loop(<<>>))
          [] at \in {"L51", "L54"} -> Return(its, loc, log)

chunk(iterable, size, strategy, fillValue) ==
    LET opt == [NoOptions EXCEPT !.size = size, !.strategy = strategy,
                                 !.fillValue = fillValue]
    IN  IF size <= 0
        THEN Rejected("chunk", <<iterable>>, opt,
                      "Cannot yield chunks of size <= 0")
        ELSE Created("chunk", <<iterable>>, opt)

ChunkSources ==
    {iter(d, c) : d \in SeqsUpTo(ChunkValues, MaxLen), c \in BOOLEAN}

chunkCall ==
    /\ pc = "idle"
    /\ \E iterable \in ChunkSources, size \in Sizes,
          strategy \in ChunkStrategies :
        \E fillValue \in IF strategy = "padEnd" THEN ChunkValues
                                               ELSE {Undefined} :
            chunk(iterable, size, strategy, fillValue)

chunkNext ==
    /\ op = "chunk"
    /\ Suspended
    /\ Resume(ChunkBody(pc, iterables, options, locals))

----------------------------------------------------------------------------
(* dedup *)

Equalities == {"strict", "near"}

\* The injected eq: the default (left, right) => left === right, or a
\* caller's comparison that is not transitive.
Eq(eq, left, right) ==
    IF eq = "strict" THEN left = right
    ELSE left - right \in {-1, 0, 1}

RECURSIVE DedupLoopLastConsumed(_, _, _, _)
\* Mutant of DedupLoop: last is the element consumed last, yielded or not.
DedupLoopLastConsumed(it, eq, last, lg) ==
    LET r == IterNext(it)
    IN  IF r.done THEN [found |-> FALSE, threw |-> FALSE, e |-> Undefined,
                        it |-> r.it, log |-> lg]
        ELSE IF Bang(r.value)
        THEN [found |-> FALSE, threw |-> TRUE, e |-> r.value, it |-> r.it,
              log |-> Append(lg, <<r.value, last>>)]
        ELSE IF ~Eq(eq, r.value, last)
        THEN [found |-> TRUE, threw |-> FALSE, e |-> r.value, it |-> r.it,
              log |-> Append(lg, <<r.value, last>>)]
        ELSE DedupLoopLastConsumed(r.it, eq, r.value,
                                   Append(lg, <<r.value, last>>))

RECURSIVE DedupLoop(_, _, _, _)
\* The for-of loop of dedup up to its next yield or the end of the source.
DedupLoop(it, eq, last, lg) ==
    LET r == IterNext(it)
    IN  IF r.done THEN [found |-> FALSE, threw |-> FALSE, e |-> Undefined,
                        it |-> r.it, log |-> lg]
        ELSE IF Bang(r.value)
        THEN [found |-> FALSE, threw |-> TRUE, e |-> r.value, it |-> r.it,
              log |-> Append(lg, <<r.value, last>>)]
        ELSE IF ~Eq(eq, r.value, last)
        THEN [found |-> TRUE, threw |-> FALSE, e |-> r.value, it |-> r.it,
              log |-> Append(lg, <<r.value, last>>)]
        ELSE DedupLoop(r.it, eq, last, Append(lg, <<r.value, last>>))

\* Mutant of DedupBody: the loop reads one element past the one it yields.
DedupBodyReadsAhead(at, its, opt, loc) ==
    LET loop(last) ==
            LET d == DedupLoop(its[1], opt.eq, last, log)
            IN  IF d.found
                THEN Yield("L84", <<IterNext(d.it).it>>,
                           [loc EXCEPT !.last = last, !.e = d.e], d.e, d.log)
                ELSE IF d.threw
                THEN Throw(<<IterReturn(d.it)>>, [loc EXCEPT !.last = last],
                           d.log, CallbackError)
                ELSE Return(<<d.it>>, [loc EXCEPT !.last = last], d.log)
    IN  CASE at = "start" ->
               LET first == IterNext(its[1])
               IN  IF ~first.done
                   THEN Yield("L80", <<first.it>>,
                              [loc EXCEPT !.first = first.value], first.value, log)
                   ELSE Return(<<first.it>>, loc, log)
          [] at = "L80" -> loop(loc.first)
          [] at = "L84" -> loop(loc.e)

DedupBody(at, its, opt, loc) ==
    LET loop(last) ==
            LET d == DedupLoop(its[1], opt.eq, last, log)
            IN  IF d.found
                THEN Yield("L84", <<d.it>>, [loc EXCEPT !.last = last, !.e = d.e],
                           d.e, d.log)
                ELSE IF d.threw
                THEN Throw(<<IterReturn(d.it)>>, [loc EXCEPT !.last = last],
                           d.log, CallbackError)
                ELSE Return(<<d.it>>, [loc EXCEPT !.last = last], d.log)
    IN  CASE at = "start" ->
               LET first == IterNext(its[1])
               IN  IF ~first.done
                   THEN Yield("L80", <<first.it>>,
                              [loc EXCEPT !.first = first.value], first.value, log)
                   ELSE Return(<<first.it>>, loc, log)
          [] at = "L80" -> loop(loc.first)
          [] at = "L84" -> loop(loc.e)

dedup(iterable, eq) ==
    Created("dedup", <<iterable>>, [NoOptions EXCEPT !.eq = eq])

dedupCall ==
    /\ pc = "idle"
    /\ \E iterable \in Sources, eq \in Equalities : dedup(iterable, eq)

dedupNext ==
    /\ op = "dedup"
    /\ Suspended
    /\ Resume(DedupBody(pc, iterables, options, locals))

----------------------------------------------------------------------------
(* scan *)

Accumulators == {"add", "addIndexed"}

\* The injected accumulator: (a, e) => a + e or (a, e, i) => a + e + i.
Accumulate(accumulator, acc, e, i) ==
    IF accumulator = "add" THEN acc + e ELSE acc + e + i

\* One turn of scan's for-of loop, acc and i as the loop finds them.
ScanLoop(its, opt, loc, acc, i) ==
    LET r == IterNext(its[1])
    IN  IF r.done
        THEN Return(<<r.it>>, [loc EXCEPT !.acc = acc, !.i = i], log)
        ELSE IF Bang(r.value)
        THEN Throw(<<IterReturn(r.it)>>,
                   [loc EXCEPT !.acc = acc, !.i = i, !.e = r.value],
                   Append(log, <<acc, r.value, i>>), CallbackError)
        ELSE LET a == Accumulate(opt.accumulator, acc, r.value, i)
             IN  Yield("L176", <<r.it>>,
                       [loc EXCEPT !.acc = a, !.i = i, !.e = r.value],
                       a, Append(log, <<acc, r.value, i>>))

\* Mutant of ScanStart: the index starts at 0 in both call forms.
ScanStartIndexZero(its, opt, loc) ==
    IF opt.initial # Undefined
    THEN ScanLoop(its, opt, loc, opt.initial, 0)
    ELSE LET first == IterNext(its[1])
         IN  IF first.done THEN Return(<<first.it>>, loc, log)
             ELSE Yield("L172", <<first.it>>,
                        [loc EXCEPT !.first = first.value,
                                    !.acc = first.value, !.i = 0],
                        first.value, log)

\* Mutant of ScanStart: initial is yielded first, as the first element is.
ScanStartYieldsInitial(its, opt, loc) ==
    IF opt.initial # Undefined
    THEN Yield("L172", its, [loc EXCEPT !.acc = opt.initial, !.i = 0],
               opt.initial, log)
    ELSE LET first == IterNext(its[1])
         IN  IF first.done THEN Return(<<first.it>>, loc, log)
             ELSE Yield("L172", <<first.it>>,
                        [loc EXCEPT !.first = first.value,
                                    !.acc = first.value, !.i = 1],
                        first.value, log)

\* scan from its first statement to its first yield, return or throw.
ScanStart(its, opt, loc) ==
    IF opt.initial # Undefined
    THEN ScanLoop(its, opt, loc, opt.initial, 0)
    ELSE LET first == IterNext(its[1])
         IN  IF first.done THEN Return(<<first.it>>, loc, log)
             ELSE Yield("L172", <<first.it>>,
                        [loc EXCEPT !.first = first.value,
                                    !.acc = first.value, !.i = 1],
                        first.value, log)

\* Mutant of ScanBody: the index is not incremented after a yield.
ScanBodyIndexStuck(at, its, opt, loc) ==
    CASE at = "start" -> ScanStart(its, opt, loc)
      [] at = "L172" -> ScanLoop(its, opt, loc, loc.acc, loc.i)
      [] at = "L176" -> ScanLoop(its, opt, loc, loc.acc, loc.i)

ScanBody(at, its, opt, loc) ==
    CASE at = "start" -> ScanStart(its, opt, loc)
      [] at = "L172" -> ScanLoop(its, opt, loc, loc.acc, loc.i)
      [] at = "L176" -> ScanLoop(its, opt, loc, loc.acc, loc.i + 1)

\* given records whether the call had a third argument; the parameter
\* initial is undefined when it had none, and scan reads only initial.
scan(iterable, accumulator, given, initial) ==
    Created("scan", <<iterable>>,
            [NoOptions EXCEPT !.accumulator = accumulator, !.given = given,
                              !.initial = initial])

scanCall ==
    /\ pc = "idle"
    /\ \E iterable \in Sources, accumulator \in Accumulators,
          given \in BOOLEAN :
           \E initial \in (IF given THEN Values ELSE {Undefined}) :
               scan(iterable, accumulator, given, initial)

scanNext ==
    /\ op = "scan"
    /\ Suspended
    /\ Resume(ScanBody(pc, iterables, options, locals))

----------------------------------------------------------------------------
(* zip *)

ZipSources ==
    {iter(d, c) : d \in SeqsUpTo(ZipValues, MaxZipLen), c \in BOOLEAN}

ZipArgs == SeqsUpTo(ZipSources, MaxSources)

\* The trailing argument of zip when it is an options object: one that
\* carries a strategy field.
ZipOptions ==
    {[strategy |-> s, fillValue |-> Undefined] :
        s \in {"shortest", "longest", "strict", "foo"}}
    \cup {[strategy |-> "longest", fillValue |-> v] : v \in ZipValues}

\* The most tuples a zip is pulled for (zip of no sources may never end).
MaxTuples == MaxZipLen + 1

RECURSIVE ShortestRoundSkipsDone(_, _, _)
\* Mutant of ShortestRound: an exhausted source is skipped, the pass goes on.
ShortestRoundSkipsDone(its, j, res) ==
    IF j > Len(its) THEN [returned |-> res = <<>>, its |-> its, res |-> res]
    ELSE LET next == IterNext(its[j])
             its2 == [its EXCEPT ![j] = next.it]
         IN  IF next.done
             THEN ShortestRoundSkipsDone(its2, j + 1, res)
             ELSE ShortestRoundSkipsDone(its2, j + 1, Append(res, next.value))

RECURSIVE ShortestRoundProbesAll(_, _, _)
\* Mutant of ShortestRound: the pass that finds an exhausted source still
\* pulls the sources after it before it returns.
ShortestRoundProbesAll(its, j, res) ==
    IF j > Len(its)
    THEN [returned |-> Len(res) < Len(its), its |-> its, res |-> res]
    ELSE LET next == IterNext(its[j])
             its2 == [its EXCEPT ![j] = next.it]
         IN  IF next.done
             THEN ShortestRoundProbesAll(its2, j + 1, res)
             ELSE ShortestRoundProbesAll(its2, j + 1, Append(res, next.value))

RECURSIVE ShortestRound(_, _, _)
\* One pass of zipShortest's for-of over the iterables, from the j-th on.
ShortestRound(its, j, res) ==
    IF j > Len(its) THEN [returned |-> FALSE, its |-> its, res |-> res]
    ELSE LET next == IterNext(its[j])
             its2 == [its EXCEPT ![j] = next.it]
         IN  IF next.done
             THEN [returned |-> TRUE, its |-> its2, res |-> res]
             ELSE ShortestRound(its2, j + 1, Append(res, next.value))

\* Mutant of ZipShortestBody: the first source is read one element ahead.
ZipShortestBodyReadsAhead(at, its, opt, loc) ==
    LET r == ShortestRound(its, 1, <<>>)
        ahead == [j \in 1..Len(r.its) |->
                     IF j = 1 THEN IterNext(r.its[j]).it ELSE r.its[j]]
    IN  IF r.returned THEN Return(r.its, loc, log)
        ELSE Yield("L255", ahead, loc, r.res, log)

ZipShortestBody(at, its, opt, loc) ==
    LET r == ShortestRound(its, 1, <<>>)
    IN  IF r.returned THEN Return(r.its, loc, log)
        ELSE Yield("L255", r.its, loc, r.res, log)

RECURSIVE LongestRoundNoFill(_, _, _, _, _)
\* Mutant of LongestRound: an exhausted source contributes undefined.
LongestRoundNoFill(its, j, res, done, fillValue) ==
    IF j > Len(its) THEN [its |-> its, res |-> res, done |-> done]
    ELSE LET next == IterNext(its[j])
             its2 == [its EXCEPT ![j] = next.it]
         IN  LongestRoundNoFill(its2, j + 1, Append(res, next.value),
                                IF next.done THEN done + 1 ELSE done,
                                fillValue)

RECURSIVE LongestRound(_, _, _, _, _)
\* One pass of zipLongest's for-of over the iterables, from the j-th on.
LongestRound(its, j, res, done, fillValue) ==
    IF j > Len(its) THEN [its |-> its, res |-> res, done |-> done]
    ELSE LET next == IterNext(its[j])
             its2 == [its EXCEPT ![j] = next.it]
         IN  IF next.done
             THEN LongestRound(its2, j + 1, Append(res, fillValue), done + 1,
                               fillValue)
             ELSE LongestRound(its2, j + 1, Append(res, next.value), done,
                               fillValue)

ZipLongestBody(at, its, opt, loc) ==
    LET r == LongestRound(its, 1, <<>>, 0, opt.fillValue)
    IN  IF r.done = Len(its) THEN Return(r.its, loc, log)
        ELSE Yield("L275", r.its, loc, r.res, log)

RECURSIVE StrictRound(_, _, _, _)
\* One pass of zipStrict's for-of over the iterables, from the j-th on.
StrictRound(its, j, res, done) ==
    IF j > Len(its) THEN [its |-> its, res |-> res, done |-> done]
    ELSE LET next == IterNext(its[j])
             its2 == [its EXCEPT ![j] = next.it]
         IN  IF next.done
             THEN StrictRound(its2, j + 1, res, done + 1)
             ELSE StrictRound(its2, j + 1, Append(res, next.value), done)

\* Mutant of ZipStrictBody: it returns as soon as any source is exhausted.
ZipStrictBodyNeverThrows(at, its, opt, loc) ==
    LET r == StrictRound(its, 1, <<>>, 0)
    IN  IF r.done = 0 THEN Yield("L293", r.its, loc, r.res, log)
        ELSE Return(r.its, loc, log)

ZipStrictBody(at, its, opt, loc) ==
    LET r == StrictRound(its, 1, <<>>, 0)
    IN  IF r.done = 0 THEN Yield("L293", r.its, loc, r.res, log)
        ELSE IF r.done = Len(its) THEN Return(r.its, loc, log)
        ELSE Throw(r.its, loc, log,
                   "Zipped iterables of unequal length with strategy = strict")

\* Mutant of zip: an unrecognised strategy falls back to "shortest".
zipDefaultsToShortest(args, given, last) ==
    LET o   == IF given THEN last
               ELSE [strategy |-> "shortest", fillValue |-> Undefined]
        opt == [NoOptions EXCEPT !.given = given, !.strategy = o.strategy,
                                 !.fillValue = o.fillValue]
    IN  CASE o.strategy = "longest" -> Created("zipLongest", args, opt)
          [] o.strategy = "strict" -> Created("zipStrict", args, opt)
          [] OTHER -> Created("zipShortest", args, opt)

\* zip(...args): given tells whether the last argument is an options object.
zip(args, given, last) ==
    LET o   == IF given THEN last
               ELSE [strategy |-> "shortest", fillValue |-> Undefined]
        opt == [NoOptions EXCEPT !.given = given, !.strategy = o.strategy,
                                 !.fillValue = o.fillValue]
    IN  CASE o.strategy = "shortest" -> Created("zipShortest", args, opt)
          [] o.strategy = "longest" -> Created("zipLongest", args, opt)
          [] o.strategy = "strict" -> Created("zipStrict", args, opt)
          [] OTHER -> Rejected("zip", args, opt,
                               "Unrecognised strategy: \"[object Object]\"")

zipCall ==
    /\ pc = "idle"
    /\ \/ \E args \in ZipArgs : zip(args, FALSE, NoOptions)
       \/ \E args \in ZipArgs, last \in ZipOptions : zip(args, TRUE, last)

zipShortestNext ==
    /\ op = "zipShortest"
    /\ Suspended
    /\ Len(out) < MaxTuples
    /\ Resume(ZipShortestBody(pc, iterables, options, locals))

zipLongestNext ==
    /\ op = "zipLongest"
    /\ Suspended
    /\ Len(out) < MaxTuples
    /\ Resume(ZipLongestBody(pc, iterables, options, locals))

zipStrictNext ==
    /\ op = "zipStrict"
    /\ Suspended
    /\ Len(out) < MaxTuples
    /\ Resume(ZipStrictBody(pc, iterables, options, locals))

----------------------------------------------------------------------------
(* cycle *)

\* The most values a cycle is pulled for (it never ends by itself).
MaxCycled == 2 * MaxLen + 1

\* Mutant of CycleBody: the elements yielded are not saved.
CycleBodySavesNothing(at, its, opt, loc) ==
    LET replay(its2, saved, k) ==
            Yield("L70", its2, [loc EXCEPT !.saved = saved, !.k = k, !.e = saved[k]],
                  saved[k], log)
        pass(saved) ==
            LET r == IterNext(its[1])
            IN  IF ~r.done
                THEN Yield("L64", <<r.it>>,
                           [loc EXCEPT !.saved = saved, !.e = r.value],
                           r.value, log)
                ELSE IF Len(saved) # 0 THEN replay(<<r.it>>, saved, 1)
                ELSE Return(<<r.it>>, [loc EXCEPT !.saved = saved], log)
    IN  CASE at = "start" -> pass(<<>>)
          [] at = "L64" -> pass(loc.saved)
          [] at = "L70" ->
               IF loc.k < Len(loc.saved) THEN replay(its, loc.saved, loc.k + 1)
               ELSE replay(its, loc.saved, 1)

CycleBody(at, its, opt, loc) ==
    LET \* for (const e of saved) yield e, inside while (true)
        replay(its2, saved, k) ==
            Yield("L70", its2, [loc EXCEPT !.saved = saved, !.k = k, !.e = saved[k]],
                  saved[k], log)
        \* for (const e of iterable) { yield e; saved.push(e); }
        pass(saved) ==
            LET r == IterNext(its[1])
            IN  IF ~r.done
                THEN Yield("L64", <<r.it>>,
                           [loc EXCEPT !.saved = saved, !.e = r.value],
                           r.value, log)
                ELSE IF Len(saved) # 0 THEN replay(<<r.it>>, saved, 1)
                ELSE Return(<<r.it>>, [loc EXCEPT !.saved = saved], log)
    IN  CASE at = "start" -> pass(<<>>)
          [] at = "L64" -> pass(Append(loc.saved, loc.e))
          [] at = "L70" ->
               IF loc.k < Len(loc.saved) THEN replay(its, loc.saved, loc.k + 1)
               ELSE replay(its, loc.saved, 1)

cycle(iterable) == Created("cycle", <<iterable>>, NoOptions)

cycleCall ==
    /\ pc = "idle"
    /\ \E iterable \in Sources : cycle(iterable)

cycleNext ==
    /\ op = "cycle"
    /\ Suspended
    /\ Len(out) < MaxCycled
    /\ Resume(CycleBody(pc, iterables, options, locals))

----------------------------------------------------------------------------
(* take *)

Limits == -2..(MaxLen + 1)

\* The iterator helper of iter(iterable).take(limit); remaining is limit until
\* the first next().
TakeBody(at, its, opt, loc) ==
    LET remaining == IF at = "start" THEN opt.limit ELSE loc.remaining
        r == TakeNext(its[1], remaining)
        loc2 == [loc EXCEPT !.remaining = r.remaining]
    IN  IF r.done THEN Return(<<r.it>>, loc2, log)
        ELSE Yield("L185", <<r.it>>, loc2, r.value, log)

\* Mutant of take: a negative limit is not checked at the call.
takeUnchecked(iterable, limit) ==
    Created("take", <<iterable>>, [NoOptions EXCEPT !.limit = limit])

take(iterable, limit) ==
    LET opt == [NoOptions EXCEPT !.limit = limit]
    IN  IF limit < 0
        THEN Rejected("take", <<iterable>>, opt, "Cannot take < 0 items")
        ELSE Created("take", <<iterable>>, opt)

takeCall ==
    /\ pc = "idle"
    /\ \E iterable \in Sources, limit \in Limits : take(iterable, limit)

takeNext ==
    /\ op = "take"
    /\ Suspended
    /\ Resume(TakeBody(pc, iterables, options, locals))

----------------------------------------------------------------------------
(* drop *)

RECURSIVE DropSkip(_, _)
\* The first loop of the drop helper: steps the source while remaining > 0.
DropSkip(it, remaining) ==
    IF remaining <= 0 THEN [done |-> FALSE, it |-> it]
    ELSE LET r == IterNext(it)
         IN  IF r.done THEN [done |-> TRUE, it |-> r.it]
             ELSE DropSkip(r.it, remaining - 1)

\* Mutant of DropBody: nothing is skipped.
DropBodySkipsNothing(at, its, opt, loc) ==
    LET r == IterNext(its[1])
        loc2 == [loc EXCEPT !.remaining = 0]
    IN  IF r.done THEN Return(<<r.it>>, loc2, log)
        ELSE Yield("L95", <<r.it>>, loc2, r.value, log)

\* The iterator helper of iter(iterable).drop(limit); remaining is limit until
\* the first next(), which skips, and 0 afterwards.
DropBody(at, its, opt, loc) ==
    LET remaining == IF at = "start" THEN opt.limit ELSE loc.remaining
        s == DropSkip(its[1], remaining)
        loc2 == [loc EXCEPT !.remaining = 0]
    IN  IF s.done THEN Return(<<s.it>>, loc2, log)
        ELSE LET r == IterNext(s.it)
             IN  IF r.done THEN Return(<<r.it>>, loc2, log)
                 ELSE Yield("L95", <<r.it>>, loc2, r.value, log)

drop(iterable, limit) ==
    LET opt == [NoOptions EXCEPT !.limit = limit]
    IN  IF limit < 0
        THEN Rejected("drop", <<iterable>>, opt, "Cannot drop < 0 items")
        ELSE Created("drop", <<iterable>>, opt)

dropCall ==
    /\ pc = "idle"
    /\ \E iterable \in Sources, limit \in Limits : drop(iterable, limit)

dropNext ==
    /\ op = "drop"
    /\ Suspended
    /\ Resume(DropBody(pc, iterables, options, locals))

----------------------------------------------------------------------------
(* takeWhile *)

\* The predicates of the callers: (_) => true, (_) => false, (e) => e === 1,
\* (e) => e !== 2, (_, i) => i < 2 and (_, i) => i <= 1 in the first place.
Predicates == {"true", "false", "isOne", "notTwo", "indexBelow2"}

\* predicate(e, i)
Test(predicate, e, i) ==
    CASE predicate = "true" -> TRUE
      [] predicate = "false" -> FALSE
      [] predicate = "isOne" -> e = 1
      [] predicate = "notTwo" -> e # 2
      [] predicate = "indexBelow2" -> i < 2
      [] predicate = "evenIndex" -> i % 2 = 0

RECURSIVE TakeWhileFilters(_, _, _, _, _)
\* Mutant of TakeWhileStep: a failing element is skipped and the loop goes on.
TakeWhileFilters(it, opt, loc, i, lg) ==
    LET r == IterNext(it)
    IN  IF r.done THEN Return(<<r.it>>, [loc EXCEPT !.i = i], lg)
        ELSE LET lg2 == Append(lg, <<r.value, i>>)
             IN  IF Test(opt.predicate, r.value, i)
                 THEN Yield("L193", <<r.it>>, [loc EXCEPT !.i = i, !.e = r.value],
                            r.value, lg2)
                 ELSE TakeWhileFilters(r.it, opt, loc, i + 1, lg2)

\* One round of the for-of loop of takeWhile, with index i.
TakeWhileStep(it, opt, loc, i, lg) ==
    LET r == IterNext(it)
    IN  IF r.done THEN Return(<<r.it>>, [loc EXCEPT !.i = i], lg)
        ELSE LET lg2 == Append(lg, <<r.value, i>>)
                 loc2 == [loc EXCEPT !.i = i, !.e = r.value]
             IN  IF Test(opt.predicate, r.value, i)
                 THEN Yield("L193", <<r.it>>, loc2, r.value, lg2)
                 ELSE \* return inside for-of closes the iterator
                      Return(<<IterReturn(r.it)>>, loc2, lg2)

TakeWhileBody(at, its, opt, loc) ==
    CASE at = "start" -> TakeWhileStep(its[1], opt, loc, 0, log)
      [] at = "L193" -> TakeWhileStep(its[1], opt, loc, loc.i + 1, log)

takeWhile(iterable, predicate) ==
    Created("takeWhile", <<iterable>>, [NoOptions EXCEPT !.predicate = predicate])

takeWhileCall ==
    /\ pc = "idle"
    /\ \E iterable \in Sources, predicate \in Predicates :
           takeWhile(iterable, predicate)

takeWhileNext ==
    /\ op = "takeWhile"
    /\ Suspended
    /\ Resume(TakeWhileBody(pc, iterables, options, locals))

----------------------------------------------------------------------------
(* dropWhile *)

RECURSIVE DropWhileSkip(_, _, _, _)
\* let e = it.next(); while (!e.done && predicate(e.value, i)) { ... }
DropWhileSkip(it, opt, i, lg) ==
    LET e == IterNext(it)
    IN  IF e.done THEN [done |-> TRUE, threw |-> FALSE, value |-> Undefined,
                        it |-> e.it, i |-> i, log |-> lg]
        ELSE LET lg2 == Append(lg, <<e.value, i>>)
             IN  IF Bang(e.value)
                 THEN [done |-> FALSE, threw |-> TRUE, value |-> e.value,
                       it |-> e.it, i |-> i, log |-> lg2]
                 ELSE IF Test(opt.predicate, e.value, i)
                 THEN DropWhileSkip(e.it, opt, i + 1, lg2)
                 ELSE [done |-> FALSE, threw |-> FALSE, value |-> e.value,
                       it |-> e.it, i |-> i, log |-> lg2]

\* Mutant of DropWhileBody: the predicate is called on the later elements too.
DropWhileBodyTestsRest(at, its, opt, loc) ==
    CASE at = "start" ->
           LET s == DropWhileSkip(its[1], opt, 0, log)
               loc2 == [loc EXCEPT !.i = s.i, !.e = s.value]
           IN  IF s.done THEN Return(<<s.it>>, loc2, s.log)
               ELSE IF s.threw
               THEN \* no for-of here: the source is left as it is
                    Throw(<<s.it>>, loc2, s.log, CallbackError)
               ELSE Yield("L108", <<s.it>>, loc2, s.value, s.log)
      [] at \in {"L108", "L109"} ->
           LET r == IterNext(its[1])
           IN  IF r.done THEN Return(<<r.it>>, loc, log)
               ELSE Yield("L109", <<r.it>>, [loc EXCEPT !.i = @ + 1], r.value,
                          Append(log, <<r.value, loc.i + 1>>))

DropWhileBody(at, its, opt, loc) ==
    CASE at = "start" ->
           LET s == DropWhileSkip(its[1], opt, 0, log)
               loc2 == [loc EXCEPT !.i = s.i, !.e = s.value]
           IN  IF s.done THEN Return(<<s.it>>, loc2, s.log)
               ELSE IF s.threw
               THEN \* no for-of here: the source is left as it is
                    Throw(<<s.it>>, loc2, s.log, CallbackError)
               ELSE Yield("L108", <<s.it>>, loc2, s.value, s.log)
      [] at \in {"L108", "L109"} ->
           \* yield* it
           LET r == IterNext(its[1])
           IN  IF r.done THEN Return(<<r.it>>, loc, log)
               ELSE Yield("L109", <<r.it>>, loc, r.value, log)

dropWhile(iterable, predicate) ==
    Created("dropWhile", <<iterable>>, [NoOptions EXCEPT !.predicate = predicate])

dropWhileCall ==
    /\ pc = "idle"
    /\ \E iterable \in Sources, predicate \in Predicates :
           dropWhile(iterable, predicate)

dropWhileNext ==
    /\ op = "dropWhile"
    /\ Suspended
    /\ Resume(DropWhileBody(pc, iterables, options, locals))

----------------------------------------------------------------------------
(* peek *)

\* Mutant of PeekBody: the consumer is called after the yield, when the
\* generator is resumed.
PeekBodyCallsAfterYield(at, its, opt, loc) ==
    LET i == IF at = "start" THEN 0 ELSE loc.i + 1
        lg == IF at = "start" THEN log ELSE Append(log, <<loc.e, loc.i>>)
        r == IterNext(its[1])
    IN  IF r.done THEN Return(<<r.it>>, [loc EXCEPT !.i = i], lg)
        ELSE Yield("L142", <<r.it>>, [loc EXCEPT !.i = i, !.e = r.value],
                   r.value, lg)

\* Mutant of PeekBody: an error of the consumer is caught and ends the
\* sequence.
PeekBodyCatches(at, its, opt, loc) ==
    LET i == IF at = "start" THEN 0 ELSE loc.i + 1
        r == IterNext(its[1])
        loc2 == [loc EXCEPT !.i = i, !.e = r.value]
        lg == Append(log, <<r.value, i>>)
    IN  IF r.done THEN Return(<<r.it>>, [loc EXCEPT !.i = i], log)
        ELSE IF Bang(r.value)
        THEN Return(<<IterReturn(r.it)>>, loc2, lg)
        ELSE Yield("L142", <<r.it>>, loc2, r.value, lg)

\* One round of the for-of loop of peek; the consumer records its arguments,
\* (e, i) => seen.push([e, i]).
PeekBody(at, its, opt, loc) ==
    LET i == IF at = "start" THEN 0 ELSE loc.i + 1
        r == IterNext(its[1])
        loc2 == [loc EXCEPT !.i = i, !.e = r.value]
        lg == Append(log, <<r.value, i>>)
    IN  IF r.done THEN Return(<<r.it>>, [loc EXCEPT !.i = i], log)
        ELSE IF Bang(r.value)
        THEN \* the exception leaves the for-of loop, which closes the source
             Throw(<<IterReturn(r.it)>>, loc2, lg, CallbackError)
        ELSE Yield("L142", <<r.it>>, loc2, r.value, lg)

\* Mutant of peek: the call pulls the first element of the source.
peekPullsAtCall(iterable) ==
    Created("peek", <<IterNext(iterable).it>>, NoOptions)

peek(iterable) == Created("peek", <<iterable>>, NoOptions)

peekCall ==
    /\ pc = "idle"
    /\ \E iterable \in Sources : peek(iterable)

peekNext ==
    /\ op = "peek"
    /\ Suspended
    /\ Resume(PeekBody(pc, iterables, options, locals))

----------------------------------------------------------------------------
(* flatMap *)

\* The mappings of the callers: (e) => [e, -e], (_, i) => [i, -i],
\* (_) => [], and one whose inner sequences are empty for some elements
\* only, (e, i) => i % 2 === 0 ? [] : [e].
Mappings == {"pair", "indexPair", "empty", "oddIndex"}

\* mapping(e, i)
Map(mapping, e, i) ==
    CASE mapping = "pair" -> <<e, -e>>
      [] mapping = "indexPair" -> <<i, -i>>
      [] mapping = "empty" -> <<>>
      [] mapping = "oddIndex" -> IF i % 2 = 0 THEN <<>> ELSE <<e>>

\* Mutant of FlatMapAdvance: an empty inner sequence ends the flatMap.
FlatMapAdvanceStopsAtEmpty(it, opt, loc, i, lg) ==
    LET r == IterNext(it)
    IN  IF r.done THEN Return(<<r.it>>, [loc EXCEPT !.i = i], lg)
        ELSE LET inner == Map(opt.mapping, r.value, i)
                 lg2 == Append(lg, <<r.value, i>>)
                 loc2 == [loc EXCEPT !.i = i, !.e = r.value, !.inner = inner,
                                     !.k = 1]
             IN  IF inner = <<>> THEN Return(<<r.it>>, loc2, lg2)
                 ELSE Yield("L120", <<r.it>>, loc2, inner[1], lg2)

RECURSIVE FlatMapAdvance(_, _, _, _, _)
\* The for-of loop of flatMap from its round with index i up to the first
\* value that yield* mapping(e, i) passes on, or to the end of the source.
FlatMapAdvance(it, opt, loc, i, lg) ==
    LET r == IterNext(it)
    IN  IF r.done THEN Return(<<r.it>>, [loc EXCEPT !.i = i], lg)
        ELSE IF Bang(r.value)
        THEN Throw(<<IterReturn(r.it)>>, [loc EXCEPT !.i = i, !.e = r.value],
                   Append(lg, <<r.value, i>>), CallbackError)
        ELSE LET inner == Map(opt.mapping, r.value, i)
                 lg2 == Append(lg, <<r.value, i>>)
                 loc2 == [loc EXCEPT !.i = i, !.e = r.value, !.inner = inner,
                                     !.k = 1]
             IN  IF inner = <<>> THEN FlatMapAdvance(r.it, opt, loc2, i + 1, lg2)
                 ELSE Yield("L120", <<r.it>>, loc2, inner[1], lg2)

\* Mutant of FlatMapBody: the index counts the elements yielded.
FlatMapBodyCountsYielded(at, its, opt, loc) ==
    CASE at = "start" -> FlatMapAdvance(its[1], opt, loc, 0, log)
      [] at = "L120" ->
           IF loc.k < Len(loc.inner)
           THEN Yield("L120", its, [loc EXCEPT !.k = @ + 1],
                      loc.inner[loc.k + 1], log)
           ELSE FlatMapAdvance(its[1], opt, loc, Len(out), log)

FlatMapBody(at, its, opt, loc) ==
    CASE at = "start" -> FlatMapAdvance(its[1], opt, loc, 0, log)
      [] at = "L120" ->
           IF loc.k < Len(loc.inner)
           THEN Yield("L120", its, [loc EXCEPT !.k = @ + 1],
                      loc.inner[loc.k + 1], log)
           ELSE FlatMapAdvance(its[1], opt, loc, loc.i + 1, log)

flatMap(iterable, mapping) ==
    Created("flatMap", <<iterable>>, [NoOptions EXCEPT !.mapping = mapping])

flatMapCall ==
    /\ pc = "idle"
    /\ \E iterable \in Sources, mapping \in Mappings :
           flatMap(iterable, mapping)

flatMapNext ==
    /\ op = "flatMap"
    /\ Suspended
    /\ Resume(FlatMapBody(pc, iterables, options, locals))

----------------------------------------------------------------------------
(* chain *)

\* The arguments of chain: up to MaxSources + 1 sources, all arrays or all
\* generators.
ChainArgs ==
    UNION {SeqsUpTo({iter(d, c) : d \in SeqsUpTo(ZipValues, MaxZipLen)},
                    MaxSources + 1) : c \in BOOLEAN}

RECURSIVE ChainAdvanceStopsAtEmpty(_, _, _)
\* Mutant of ChainAdvance: an empty source ends the chain.
ChainAdvanceStopsAtEmpty(its, j, loc) ==
    IF j > Len(its) THEN Return(its, [loc EXCEPT !.k = j], log)
    ELSE LET r == IterNext(its[j])
             its2 == [its EXCEPT ![j] = r.it]
         IN  IF r.done
             THEN IF r.it.pos = 0 THEN Return(its2, [loc EXCEPT !.k = j], log)
                  ELSE ChainAdvanceStopsAtEmpty(its2, j + 1, loc)
             ELSE Yield("L29", its2, [loc EXCEPT !.k = j], r.value, log)

RECURSIVE ChainAdvance(_, _, _)
\* The for-of loop of chain from its j-th source, inside yield* it, up to
\* the next value passed on or to the end of the last source.
ChainAdvance(its, j, loc) ==
    IF j > Len(its) THEN Return(its, [loc EXCEPT !.k = j], log)
    ELSE LET r == IterNext(its[j])
             its2 == [its EXCEPT ![j] = r.it]
         IN  IF r.done THEN ChainAdvance(its2, j + 1, loc)
             ELSE Yield("L29", its2, [loc EXCEPT !.k = j], r.value, log)

ChainBody(at, its, opt, loc) ==
    CASE at = "start" -> ChainAdvance(its, 1, loc)
      [] at = "L29" -> ChainAdvance(its, loc.k, loc)

chain(iters) == Created("chain", iters, NoOptions)

chainCall ==
    /\ pc = "idle"
    /\ \E iters \in ChainArgs : chain(iters)

chainNext ==
    /\ op = "chain"
    /\ Suspended
    /\ Resume(ChainBody(pc, iterables, options, locals))

----------------------------------------------------------------------------
(* filter *)

\* The predicates of the callers of filter: those above and
\* (_, i) => i % 2 === 0.
FilterPredicates == Predicates \cup {"evenIndex"}

RECURSIVE FilterAdvanceCountsKept(_, _, _, _, _)
\* Mutant of FilterAdvance: the counter is increased for kept elements only.
FilterAdvanceCountsKept(it, opt, loc, i, lg) ==
    LET r == IterNext(it)
    IN  IF r.done THEN Return(<<r.it>>, [loc EXCEPT !.i = i - 1], lg)
        ELSE LET lg2 == Append(lg, <<r.value, i>>)
             IN  IF Test(opt.predicate, r.value, i)
                 THEN Yield("L114", <<r.it>>, [loc EXCEPT !.i = i, !.e = r.value],
                            r.value, lg2)
                 ELSE FilterAdvanceCountsKept(r.it, opt, loc, i, lg2)

RECURSIVE FilterAdvance(_, _, _, _, _)
\* The loop of the helper of iter(iterable).filter(predicate), with counter
\* i, up to the next element kept or to the end of the source.
FilterAdvance(it, opt, loc, i, lg) ==
    LET r == IterNext(it)
    IN  IF r.done THEN Return(<<r.it>>, [loc EXCEPT !.i = i], lg)
        ELSE LET lg2 == Append(lg, <<r.value, i>>)
             IN  IF Test(opt.predicate, r.value, i)
                 THEN Yield("L114", <<r.it>>, [loc EXCEPT !.i = i, !.e = r.value],
                            r.value, lg2)
                 ELSE FilterAdvance(r.it, opt, loc, i + 1, lg2)

FilterBody(at, its, opt, loc) ==
    CASE at = "start" -> FilterAdvance(its[1], opt, loc, 0, log)
      [] at = "L114" -> FilterAdvance(its[1], opt, loc, loc.i + 1, log)

filter(iterable, predicate) ==
    Created("filter", <<iterable>>, [NoOptions EXCEPT !.predicate = predicate])

filterCall ==
    /\ pc = "idle"
    /\ \E iterable \in Sources, predicate \in FilterPredicates :
           filter(iterable, predicate)

filterNext ==
    /\ op = "filter"
    /\ Suspended
    /\ Resume(FilterBody(pc, iterables, options, locals))

----------------------------------------------------------------------------
(* map *)

\* The mappings of the callers of map: (e) => e * 2 and, for
\* (e, i) => e.repeat(i + 1), its counterpart on numbers.
MapFunctions == {"double", "timesIndex"}

\* mapping(e, i)
Apply(mapping, e, i) ==
    CASE mapping = "double" -> e * 2
      [] mapping = "timesIndex" -> e * (i + 1)

\* Mappings that throw: bang, which always does, and one that throws on the
\* element 2 only and returns the others unchanged.
ThrowingFunctions == {"bang", "bangOnTwo"}

Throws(mapping, e, i) ==
    \/ mapping = "bang"
    \/ mapping = "bangOnTwo" /\ e = 2

\* One round of the helper of iter(iterable).map(mapping); when the mapping
\* throws, the helper closes the source and the error reaches the caller.
MapBody(at, its, opt, loc) ==
    LET i == IF at = "start" THEN 0 ELSE loc.i + 1
        r == IterNext(its[1])
        loc2 == [loc EXCEPT !.i = i, !.e = r.value]
        lg == Append(log, <<r.value, i>>)
    IN  IF r.done THEN Return(<<r.it>>, [loc EXCEPT !.i = i], log)
        ELSE IF Throws(opt.mapping, r.value, i)
        THEN Throw(<<IterReturn(r.it)>>, loc2, lg, "This should never happen")
        ELSE Yield("L135", <<r.it>>, loc2,
                   IF opt.mapping = "bangOnTwo" THEN r.value
                   ELSE Apply(opt.mapping, r.value, i),
                   lg)

map(iterable, mapping) ==
    Created("map", <<iterable>>, [NoOptions EXCEPT !.mapping = mapping])

mapCall ==
    /\ pc = "idle"
    /\ \E iterable \in Sources, mapping \in MapFunctions \cup ThrowingFunctions :
           map(iterable, mapping)

mapNext ==
    /\ op = "map"
    /\ Suspended
    /\ Resume(MapBody(pc, iterables, options, locals))

----------------------------------------------------------------------------
(* map(filter(iterable, predicate), mapping) *)

\* Mutant of MapFilterBody: the filter reads one element ahead.
MapFilterBodyReadsAhead(at, its, opt, loc) ==
    LET inner == FilterBody(IF at = "start" THEN "start" ELSE "L114",
                            its, opt, loc)
        k == IF at = "start" THEN 0 ELSE loc.k + 1
    IN  IF inner.result = "done"
        THEN Return(inner.iterables, inner.locals, inner.log)
        ELSE Yield("L135", <<IterNext(inner.iterables[1]).it>>,
                   [inner.locals EXCEPT !.k = k],
                   Apply(opt.mapping, inner.value[1], k),
                   Append(inner.log, <<"mapping", inner.value[1], k>>))

\* One round of the map helper over the filter helper: it asks the filter
\* helper for one element, and maps it with its own counter k.  The filter
\* helper is at its start, suspended or completed as the map helper is.  The
\* calls of the mapping are logged with a tag, those of the predicate bare.
MapFilterBody(at, its, opt, loc) ==
    LET inner == FilterBody(IF at = "start" THEN "start" ELSE "L114",
                            its, opt, loc)
        k == IF at = "start" THEN 0 ELSE loc.k + 1
    IN  IF inner.result = "done"
        THEN Return(inner.iterables, inner.locals, inner.log)
        ELSE Yield("L135", inner.iterables, [inner.locals EXCEPT !.k = k],
                   Apply(opt.mapping, inner.value[1], k),
                   Append(inner.log, <<"mapping", inner.value[1], k>>))

mapFilter(iterable, predicate, mapping) ==
    Created("mapFilter", <<iterable>>,
            [NoOptions EXCEPT !.predicate = predicate, !.mapping = mapping])

mapFilterCall ==
    /\ pc = "idle"
    /\ \E iterable \in Sources, predicate \in FilterPredicates,
          mapping \in MapFunctions : mapFilter(iterable, predicate, mapping)

mapFilterNext ==
    /\ op = "mapFilter"
    /\ Suspended
    /\ Resume(MapFilterBody(pc, iterables, options, locals))

----------------------------------------------------------------------------
(* callbacks that throw *)

\* A call of dedup, dropWhile, flatMap, peek or scan whose callback (eq,
\* predicate, mapping, consumer, fold) throws when it is given the element v.
throwingCall ==
    /\ pc = "idle"
    /\ \E iterable \in Sources, v \in Numbers :
           \/ Created("peek", <<iterable>>, [NoOptions EXCEPT !.throwsOn = v])
           \/ \E eq \in Equalities :
                  Created("dedup", <<iterable>>,
                          [NoOptions EXCEPT !.eq = eq, !.throwsOn = v])
           \/ \E predicate \in Predicates :
                  Created("dropWhile", <<iterable>>,
                          [NoOptions EXCEPT !.predicate = predicate,
                                            !.throwsOn = v])
           \/ \E mapping \in Mappings :
                  Created("flatMap", <<iterable>>,
                          [NoOptions EXCEPT !.mapping = mapping, !.throwsOn = v])
           \/ \E accumulator \in Accumulators, initial \in Values :
                  Created("scan", <<iterable>>,
                          [NoOptions EXCEPT !.accumulator = accumulator,
                                            !.initial = initial,
                                            !.throwsOn = v])

----------------------------------------------------------------------------
(* Reference results *)

IsPrefix(a, b) == Len(a) <= Len(b) /\ a = SubSeq(b, 1, Len(a))

\* The windows of s of size k: window i (0-based) is s[i..i+k).
Windows(s, k) == [j \in 1..Max(0, Len(s) - k + 1) |-> SubSeq(s, j, j + k - 1)]

\* The complete groups of s of the given size.
Chunks(s, size) ==
    [j \in 1..(Len(s) \div size) |-> SubSeq(s, (j - 1) * size + 1, j * size)]

RECURSIVE Flatten(_)
Flatten(ss) == IF ss = <<>> THEN <<>> ELSE Head(ss) \o Flatten(Tail(ss))

RECURSIVE Collapse(_, _, _)
\* s with every element dropped that eq reports equal to the last kept one.
Collapse(s, eq, kept) ==
    IF s = <<>> THEN kept
    ELSE IF kept = <<>> \/ ~Eq(eq, Head(s), kept[Len(kept)])
    THEN Collapse(Tail(s), eq, Append(kept, Head(s)))
    ELSE Collapse(Tail(s), eq, kept)

RECURSIVE RunHeads(_, _)
\* The first element of every maximal run of equal adjacent elements of s,
\* s[k..] being what is left to look at.
RunHeads(s, k) ==
    IF k > Len(s) THEN <<>>
    ELSE IF k = 1 \/ s[k] # s[k - 1] THEN <<s[k]>> \o RunHeads(s, k + 1)
    ELSE RunHeads(s, k + 1)

Lengths(its) == {Len(its[j].data) : j \in 1..Len(its)}

Shortest(its) == CHOOSE n \in Lengths(its) : \A m \in Lengths(its) : n <= m

Longest(its) == CHOOSE n \in Lengths(its) : \A m \in Lengths(its) : n >= m

\* The i-th tuple over the sources, fill standing in for an exhausted source.
Tuple(its, i, fill) ==
    [j \in 1..Len(its) |->
        IF i <= Len(its[j].data) THEN its[j].data[i] ELSE fill]

Tuples(its, n, fill) == [i \in 1..n |-> Tuple(its, i, fill)]

Source == iterables[1].data

----------------------------------------------------------------------------
(* window: claims *)

\* C1: for every finite source s and size k >= 1, window(s, k) yields exactly
\* max(0, length(s) - k + 1) windows, the i-th being s[i..i+k), oldest first,
\* and nothing when length(s) < k: what has been yielded is always a prefix
\* of these windows and a finished window has yielded all of them.
C1_WindowYieldsEveryWindow ==
    (op = "window" /\ pc # "rejected") =>
        /\ error = NoError
        /\ IsPrefix(out, Windows(Source, options.size))
        /\ pc = "completed" => out = Windows(Source, options.size)

\* The statement of C1 over sources without a return() method, which the
\* take helper cannot close.
WindowYieldsEveryWindowOfArrays ==
    (op = "window" /\ pc # "rejected" /\ ~iterables[1].closable) =>
        /\ error = NoError
        /\ IsPrefix(out, Windows(Source, options.size))
        /\ pc = "completed" => out = Windows(Source, options.size)

----------------------------------------------------------------------------
(* zip: claims *)

\* C2: with no options or with strategy "shortest", zip over N >= 1 finite
\* sources yields exactly min(lengths) tuples and then terminates without an
\* error; tuple i is [s1[i], ..., sN[i]] in source order; nothing is yielded
\* when a source is empty.
C2_ZipShortestYieldsMinTuples ==
    (op = "zipShortest" /\ Len(iterables) >= 1) =>
        LET expected == Tuples(iterables, Shortest(iterables), Undefined)
        IN  /\ error = NoError
            /\ IsPrefix(out, expected)
            /\ pc = "completed" => out = expected
            /\ (\E j \in 1..Len(iterables) : iterables[j].data = <<>>)
                   => out = <<>>

C2_Witness ==
    /\ op = "zipShortest"
    /\ pc = "completed"
    /\ Len(iterables) = 2
    /\ Len(iterables[1].data) = 2
    /\ Len(iterables[2].data) = 1
    /\ iterables[1].data[1] # iterables[2].data[1]
    /\ Len(out) = 1

\* C3: with strategy "longest", zip over N >= 1 finite sources yields exactly
\* max(lengths) tuples and then terminates; entry j of tuple i is s_j[i] when
\* i < length(s_j) and the fillValue otherwise, undefined when none was given.
C3_ZipLongestYieldsMaxTuples ==
    (op = "zipLongest" /\ Len(iterables) >= 1) =>
        LET expected ==
                Tuples(iterables, Longest(iterables), options.fillValue)
        IN  /\ error = NoError
            /\ IsPrefix(out, expected)
            /\ pc = "completed" => out = expected

C3_Witness ==
    /\ op = "zipLongest"
    /\ pc = "completed"
    /\ Len(iterables) = 2
    /\ Len(iterables[1].data) = 2
    /\ Len(iterables[2].data) = 1
    /\ options.fillValue # Undefined
    /\ Len(out) = 2
    /\ out[2][2] = options.fillValue

\* C4: with strategy "strict", zip over N >= 1 sources of one length L yields
\* L full tuples and terminates without error; over sources of differing
\* lengths it yields exactly min(lengths) full tuples and the next pull raises
\* the length-mismatch error; no partial tuple is ever yielded.
C4_ZipStrictYieldsOrRaises ==
    (op = "zipStrict" /\ Len(iterables) >= 1) =>
        LET expected == Tuples(iterables, Shortest(iterables), Undefined)
            even == Cardinality(Lengths(iterables)) = 1
        IN  /\ IsPrefix(out, expected)
            /\ pc # "completed" => error = NoError
            /\ pc = "completed" =>
                   /\ out = expected
                   /\ even => error = NoError
                   /\ ~even => error =
                        "Zipped iterables of unequal length with strategy = strict"

C4_Witness ==
    /\ op = "zipStrict"
    /\ pc = "completed"
    /\ result = "throw"
    /\ Len(iterables) = 2
    /\ Len(iterables[1].data) = 2
    /\ Len(iterables[2].data) = 1
    /\ Len(out) = 1

----------------------------------------------------------------------------
(* chunk: claims *)

\* C5: with the default strategy "dropEnd", chunk(s, size) yields exactly
\* floor(length(s) / size) chunks, the j-th being s[j*size .. (j+1)*size);
\* the trailing length(s) mod size elements are never yielded and no error
\* is raised.
C5_ChunkDropEnd ==
    (op = "chunk" /\ options.strategy = "dropEnd" /\ pc # "rejected") =>
        /\ error = NoError
        /\ IsPrefix(out, Chunks(Source, options.size))
        /\ pc = "completed" => out = Chunks(Source, options.size)

C5_Witness ==
    /\ op = "chunk"
    /\ options.strategy = "dropEnd"
    /\ pc = "completed"
    /\ options.size = 2
    /\ Len(Source) = 3
    /\ Len(out) = 1

\* C6: with strategy "keepEnd" the chunks yielded concatenate to exactly s:
\* every chunk but possibly the last has size elements, the last has between
\* 1 and size, no chunk is empty, and a source whose length is a multiple of
\* size gives the complete groups only.
C6_ChunkKeepEnd ==
    (op = "chunk" /\ options.strategy = "keepEnd" /\ pc # "rejected") =>
        /\ error = NoError
        /\ \A k \in 1..Len(out) :
               /\ Len(out[k]) >= 1
               /\ Len(out[k]) <= options.size
               /\ k < Len(out) => Len(out[k]) = options.size
        /\ IsPrefix(Flatten(out), Source)
        /\ pc = "completed" => Flatten(out) = Source
        /\ (pc = "completed" /\ Len(Source) % options.size = 0)
               => out = Chunks(Source, options.size)

C6_Witness ==
    /\ op = "chunk"
    /\ options.strategy = "keepEnd"
    /\ pc = "completed"
    /\ options.size = 2
    /\ Len(Source) = 3
    /\ Len(out) = 2
    /\ Len(out[2]) = 1

\* C7: with strategy "strict", chunk(s, size) yields all floor(length(s)/size)
\* complete chunks first; the pull after the last complete chunk raises if and
\* only if length(s) mod size # 0 and reports finished otherwise; the error is
\* never raised by the call or by an earlier pull.
C7_ChunkStrict ==
    (op = "chunk" /\ options.strategy = "strict" /\ options.size >= 1) =>
        /\ pc # "rejected"
        /\ IsPrefix(out, Chunks(Source, options.size))
        /\ pc # "completed" => error = NoError
        /\ pc = "completed" =>
               /\ out = Chunks(Source, options.size)
               /\ Len(Source) % options.size = 0 => error = NoError
               /\ Len(Source) % options.size # 0 => error = "Incomplete chunk"

C7_Witness ==
    /\ op = "chunk"
    /\ options.strategy = "strict"
    /\ pc = "completed"
    /\ result = "throw"
    /\ options.size = 2
    /\ Len(Source) = 3
    /\ Len(out) = 1

----------------------------------------------------------------------------
(* dedup: claims *)

\* C8: dedup(s) yields s[0] and then every later element that eq reports
\* unequal to the most recently yielded element; with the default strict
\* equality the output is s with each maximal run of equal adjacent elements
\* collapsed to one, so no two adjacent outputs are equal and non-adjacent
\* repeats are kept; an empty source yields nothing.
C8_DedupCollapsesRuns ==
    (op = "dedup") =>
        /\ error = NoError
        /\ IsPrefix(out, Collapse(Source, options.eq, <<>>))
        /\ pc = "completed" => out = Collapse(Source, options.eq, <<>>)
        /\ (Len(out) >= 1) => out[1] = Source[1]
        /\ options.eq = "strict" =>
               /\ \A k \in 1..(Len(out) - 1) : out[k] # out[k + 1]
               /\ pc = "completed" => out = RunHeads(Source, 1)

C8_Witness ==
    /\ op = "dedup"
    /\ options.eq = "strict"
    /\ pc = "completed"
    /\ Source = <<1, 1, 2, 1>>
    /\ out = <<1, 2, 1>>

----------------------------------------------------------------------------
(* scan: claims *)

\* C9: scan(s, fold) without an initial value yields exactly length(s)
\* values: the first is s[0] and the k-th (k >= 1) is fold(previous output,
\* s[k], k); fold is called once per later element, so never on an empty or
\* a one-element source, and an empty source yields nothing.
C9_ScanSeededFromFirst ==
    (op = "scan" /\ options.initial = Undefined) =>
        /\ error = NoError
        /\ Len(out) <= Len(Source)
        /\ pc = "completed" => Len(out) = Len(Source)
        /\ Len(out) >= 1 => out[1] = Source[1]
        /\ Len(log) = Max(0, Len(out) - 1)
        /\ \A k \in 2..Len(out) :
               /\ log[k - 1] = <<out[k - 1], Source[k], k - 1>>
               /\ out[k] = Accumulate(options.accumulator, out[k - 1],
                                      Source[k], k - 1)

C9_Witness ==
    /\ op = "scan"
    /\ options.initial = Undefined
    /\ options.accumulator = "addIndexed"
    /\ pc = "completed"
    /\ Source = <<1, 2, 1>>
    /\ out = <<1, 4, 7>>

\* C10: scan(s, fold, initial) with an initial value never yields initial
\* itself: it yields exactly length(s) values, the k-th being
\* fold(acc_k, s[k], k) with acc_0 = initial and acc_(k+1) the k-th output;
\* an empty source yields nothing and fold is not called.  An initial value
\* is a value other than undefined: scan takes an undefined third argument
\* for the call form without initial.
C10_ScanWithInitial ==
    (op = "scan" /\ options.initial # Undefined) =>
        /\ error = NoError
        /\ Len(out) <= Len(Source)
        /\ pc = "completed" => Len(out) = Len(Source)
        /\ Len(log) = Len(out)
        /\ \A k \in 1..Len(out) :
               LET acc == IF k = 1 THEN options.initial ELSE out[k - 1]
               IN  /\ log[k] = <<acc, Source[k], k - 1>>
                   /\ out[k] = Accumulate(options.accumulator, acc,
                                          Source[k], k - 1)

C10_Witness ==
    /\ op = "scan"
    /\ options.initial = 2
    /\ options.accumulator = "addIndexed"
    /\ pc = "completed"
    /\ Source = <<1, 2, 1>>
    /\ out = <<3, 6, 9>>

\* C11: in both call forms of scan the index passed to fold grows by exactly
\* 1 per fold application and is the 0-based source position of the element
\* being folded: the first application gets index 0 when initial is given
\* and index 1 when the accumulator was seeded from the first element.
C11_ScanIndexIsSourcePosition ==
    (op = "scan") =>
        /\ Len(log) >= 1 =>
               log[1][3] = (IF options.initial # Undefined THEN 0 ELSE 1)
        /\ \A k \in 1..Len(log) :
               /\ log[k][3] + 1 \in 1..Len(Source)
               /\ log[k][2] = Source[log[k][3] + 1]
               /\ k > 1 => log[k][3] = log[k - 1][3] + 1
        /\ Len(log) = iterables[1].pos
                        - (IF options.initial # Undefined \/ out = <<>>
                           THEN 0 ELSE 1)

C11_Witness ==
    /\ op = "scan"
    /\ options.initial = Undefined
    /\ pc = "completed"
    /\ Source = <<3, 1, 2>>
    /\ Len(log) = 2
    /\ log[1][3] = 1
    /\ log[2][3] = 2

----------------------------------------------------------------------------
(* cycle: claims *)

\* C12: cycle(s) over a finite source of length n >= 1 never terminates and
\* its k-th output (0-based) is s[k mod n]; the source is traversed only
\* once, its elements being saved as they are yielded and replayed from the
\* saved buffer afterwards; cycle over an empty source yields nothing and
\* terminates.
C12_CycleReplaysSaved ==
    (op = "cycle") =>
        LET n == Len(Source)
            it == iterables[1]
        IN  /\ error = NoError
            /\ n >= 1 =>
                   /\ pc # "completed"
                   /\ \A k \in 1..Len(out) : out[k] = Source[((k - 1) % n) + 1]
            /\ n = 0 => (out = <<>> /\ pc \in {"start", "completed"})
            /\ it.nexts <= n + 1
            /\ n >= 1 => it.nexts = Min(Len(out), n + 1)
            /\ it.pos = Min(Len(out), n)
            /\ locals.saved =
                   SubSeq(Source, 1, IF pc = "L64" THEN it.pos - 1 ELSE it.pos)

C12_Witness ==
    /\ op = "cycle"
    /\ Source = <<1, 2, 3>>
    /\ out = <<1, 2, 3, 1, 2, 3, 1>>

----------------------------------------------------------------------------
(* argument validation: claims *)

Untouched(it) == it.nexts = 0 /\ it.pos = 0 /\ ~it.closed

\* C13: take and drop with n < 0, window and chunk with size <= 0 raise from
\* the call itself: no sequence is returned and no element has been pulled
\* from the source.  With n >= 0 or size >= 1 the call raises nothing, and
\* it pulls nothing either.
C13_InvalidNumericArgumentsRejectedAtCall ==
    (op \in {"take", "drop", "window", "chunk"}) =>
        /\ op \in {"take", "drop"} => ((pc = "rejected") <=> (options.limit < 0))
        /\ op \in {"window", "chunk"} => ((pc = "rejected") <=> (options.size <= 0))
        /\ pc = "rejected" =>
               /\ error = CASE op = "take" -> "Cannot take < 0 items"
                             [] op = "drop" -> "Cannot drop < 0 items"
                             [] op = "window" ->
                                  "Cannot yield sliding windows of size <= 0"
                             [] op = "chunk" -> "Cannot yield chunks of size <= 0"
               /\ result = "none"
        /\ pc = "start" => error = NoError
        /\ pc \in {"rejected", "start"} =>
               (out = <<>> /\ Untouched(iterables[1]))

C13_Witness ==
    /\ op = "drop"
    /\ pc = "rejected"
    /\ options.limit = -1
    /\ Len(iterables[1].data) > 0

\* C14: zip called with a trailing options object whose strategy is none of
\* "shortest", "longest", "strict" raises from the zip call itself: no
\* sequence is returned and no element has been pulled from any source.  A
\* zip call raises in no other case.
C14_ZipRejectsUnrecognisedStrategy ==
    LET unrecognised ==
            /\ options.given
            /\ options.strategy \notin {"shortest", "longest", "strict"}
    IN  /\ unrecognised =>
               /\ op = "zip"
               /\ pc = "rejected"
               /\ error = "Unrecognised strategy: \"[object Object]\""
               /\ result = "none"
               /\ out = <<>>
               /\ \A j \in 1..Len(iterables) : Untouched(iterables[j])
        /\ (op = "zip" \/ pc = "rejected") => unrecognised

C14_Witness ==
    /\ op = "zip"
    /\ pc = "rejected"
    /\ options.strategy = "foo"
    /\ Len(iterables) = 2
    /\ Len(iterables[1].data) > 0

----------------------------------------------------------------------------
(* take: claims *)

\* C15: for every finite one-shot source s and n >= 0, take(s, n) yields
\* exactly the first min(n, length(s)) elements of s in order and pulls no
\* element beyond them; for 0 <= n <= length(s), once take(s, n) has been
\* drained, what it yielded followed by what s still produces is s.
C15_TakeYieldsPrefixAndLeavesRest ==
    (op = "take" /\ pc # "rejected") =>
        LET n == options.limit
            expected == SubSeq(Source, 1, Min(n, Len(Source)))
        IN  /\ error = NoError
            /\ IsPrefix(out, expected)
            /\ iterables[1].pos = Len(out)
            /\ pc = "completed" =>
                   /\ out = expected
                   /\ n <= Len(Source) => out \o Spread(iterables[1]) = Source

\* The part of C15 that holds of every source: the elements yielded and
\* pulled; and the whole of it over sources without a return() method,
\* which the take helper cannot close.
TakeYieldsPrefix ==
    (op = "take" /\ pc # "rejected") =>
        LET n == options.limit
            expected == SubSeq(Source, 1, Min(n, Len(Source)))
        IN  /\ error = NoError
            /\ IsPrefix(out, expected)
            /\ iterables[1].pos = Len(out)
            /\ pc = "completed" =>
                   /\ out = expected
                   /\ iterables[1].closed = (iterables[1].closable /\ n <= Len(Source))
                   /\ (n <= Len(Source) /\ ~iterables[1].closable) =>
                          out \o Spread(iterables[1]) = Source

----------------------------------------------------------------------------
(* drop: claims *)

\* C16: for every finite source s and n >= 0, drop(s, n) yields exactly
\* s[n..] in order (nothing when n >= length(s), all of s when n = 0), so
\* the first n elements of s followed by drop(s, n) are s when
\* n <= length(s); the skipped elements are pulled only when the first
\* element is requested: none before, all of them then.
C16_DropYieldsRest ==
    (op = "drop" /\ pc # "rejected") =>
        LET n == options.limit
            it == iterables[1]
            expected == SubSeq(Source, n + 1, Len(Source))
        IN  /\ error = NoError
            /\ IsPrefix(out, expected)
            /\ n >= Len(Source) => out = <<>>
            /\ pc = "completed" =>
                   /\ out = expected
                   /\ n = 0 => out = Source
                   /\ n <= Len(Source) => SubSeq(Source, 1, n) \o out = Source
            /\ pc = "start" => Untouched(it)
            /\ pc = "L95" => it.pos = n + Len(out)
            /\ pc = "completed" => it.pos = Len(Source)
            /\ ~it.closed

C16_Witness ==
    /\ op = "drop"
    /\ pc = "L95"
    /\ options.limit = 2
    /\ Len(Source) = 4
    /\ Len(out) = 1

----------------------------------------------------------------------------
(* takeWhile: claims *)

\* The length of the longest prefix of s whose elements all satisfy
\* predicate(element, index).
PassingPrefix(s, predicate) ==
    CHOOSE k \in 0..Len(s) :
        /\ \A j \in 1..k : Test(predicate, s[j], j - 1)
        /\ k < Len(s) => ~Test(predicate, s[k + 1], k)

\* The calls predicate(s[1], 0), predicate(s[2], 1), ... on the first n
\* elements of s.
IndexedCalls(s, n) == [j \in 1..n |-> <<s[j], j - 1>>]

\* C17: takeWhile(s, p) yields exactly the longest prefix of s whose elements
\* all satisfy p(element, index) and is then finished: the first failing
\* element has been consumed from the source and is not yielded, and no
\* later element is pulled, tested or yielded, even if it would pass.
C17_TakeWhileYieldsPassingPrefix ==
    (op = "takeWhile") =>
        LET k == PassingPrefix(Source, options.predicate)
            it == iterables[1]
        IN  /\ error = NoError
            /\ IsPrefix(out, SubSeq(Source, 1, k))
            /\ it.pos = Len(log)
            /\ log = IndexedCalls(Source, Len(log))
            /\ Len(log) <= Min(k + 1, Len(Source))
            /\ pc = "L193" => Len(log) = Len(out)
            /\ pc = "completed" =>
                   /\ out = SubSeq(Source, 1, k)
                   /\ it.pos = Min(k + 1, Len(Source))

C17_Witness ==
    /\ op = "takeWhile"
    /\ pc = "completed"
    /\ result = "done"
    /\ options.predicate = "notTwo"
    /\ Source = <<1, 2, 3>>
    /\ out = <<1>>
    /\ iterables[1].pos = 2

----------------------------------------------------------------------------
(* dropWhile: claims *)

\* C18: dropWhile(s, p) yields the first element of s for which
\* p(element, source position) is false and every element after it,
\* unchanged and in order; the predicate is called on the dropped prefix and
\* on that first failing element only, never on a later element.  If every
\* element satisfies p, or s is empty, nothing is yielded.
C18_DropWhileYieldsFromFirstFailing ==
    (op = "dropWhile") =>
        LET k == PassingPrefix(Source, options.predicate)
            expected == SubSeq(Source, k + 1, Len(Source))
            it == iterables[1]
        IN  /\ error = NoError
            /\ IsPrefix(out, expected)
            /\ k = Len(Source) => out = <<>>
            /\ pc = "completed" => out = expected
            /\ pc = "start" => (log = <<>> /\ Untouched(it))
            /\ pc # "start" =>
                   log = IndexedCalls(Source, Min(k + 1, Len(Source)))
            /\ pc \in {"L108", "L109"} => it.pos = k + Len(out)

C18_Witness ==
    /\ op = "dropWhile"
    /\ pc = "completed"
    /\ options.predicate = "isOne"
    /\ Source = <<1, 1, 2, 1>>
    /\ out = <<2, 1>>
    /\ Len(log) = 3

----------------------------------------------------------------------------
(* peek: claims *)

\* C19: peek(s, consumer) yields the elements of s unchanged and in order
\* and calls consumer(element, index) exactly once per element, with index
\* 0, 1, 2, ..., in the pull that yields the element and before the yield:
\* after k pulls the consumer has been called min(k, length(s)) times (as
\* many times as elements were yielded, and length(s) times once the
\* sequence has ended), and never on an empty source.
C19_PeekCallsConsumerOncePerElement ==
    (op = "peek") =>
        /\ error = NoError
        /\ IsPrefix(out, Source)
        /\ log = IndexedCalls(Source, Len(log))
        /\ Len(log) = Len(out)
        /\ iterables[1].pos = Len(out)
        /\ pc = "start" => Untouched(iterables[1])
        /\ pc = "completed" => (out = Source /\ Len(log) = Len(Source))
        /\ Source = <<>> => log = <<>>

C19_Witness ==
    /\ op = "peek"
    /\ pc = "L142"
    /\ Source = <<3, 1, 2>>
    /\ out = <<3, 1>>
    /\ log = <<(<<3, 0>>), (<<1, 1>>)>>

----------------------------------------------------------------------------
(* flatMap: claims *)

\* The inner sequences mapping(s[1], 0), ..., mapping(s[n], n - 1).
Inners(s, mapping, n) == [j \in 1..n |-> Map(mapping, s[j], j - 1)]

\* C20: flatMap(s, mapping) yields the concatenation, in source order, of the
\* inner sequences mapping(s[k], k), empty ones contributing nothing;
\* mapping is called exactly once per source element reached, and an
\* element is pulled and mapped only when every inner sequence before it
\* has been yielded in full.
C20_FlatMapConcatenatesInners ==
    (op = "flatMap") =>
        LET m == options.mapping
            n == Len(log)
            expected == Flatten(Inners(Source, m, Len(Source)))
        IN  /\ error = NoError
            /\ IsPrefix(out, expected)
            /\ log = IndexedCalls(Source, n)
            /\ iterables[1].pos = n
            /\ pc = "start" => Untouched(iterables[1])
            /\ pc = "L120" =>
                   /\ n >= 1
                   /\ Len(Flatten(Inners(Source, m, n - 1))) < Len(out)
                   /\ Len(out) <= Len(Flatten(Inners(Source, m, n)))
            /\ pc = "completed" => (out = expected /\ n = Len(Source))

C20_Witness ==
    /\ op = "flatMap"
    /\ pc = "L120"
    /\ options.mapping = "oddIndex"
    /\ Source = <<1, 2, 3, 1>>
    /\ out = <<2, 1>>
    /\ Len(log) = 4

----------------------------------------------------------------------------
(* chain: claims *)

RECURSIVE Pulled(_)
\* The number of elements pulled from the sources altogether.
Pulled(its) == IF its = <<>> THEN 0 ELSE Head(its).pos + Pulled(Tail(its))

\* C21: chain(s1, ..., sN) yields all elements of s1, then of s2, and so on,
\* in order, skipping empty sources; source j+1 is not pulled at all until
\* source j has reported finished; each pull that yields has advanced
\* exactly one source by one element, and an exhausted source has been
\* asked once more, for its finished-check, and never again.
C21_ChainYieldsSourcesInTurn ==
    (op = "chain") =>
        LET N == Len(iterables)
            expected == Flatten([j \in 1..N |-> iterables[j].data])
            finished(j) == iterables[j].nexts = Len(iterables[j].data) + 1
        IN  /\ error = NoError
            /\ IsPrefix(out, expected)
            /\ Pulled(iterables) = Len(out)
            /\ \A j \in 1..N :
                   /\ iterables[j].nexts \in {iterables[j].pos, iterables[j].pos + 1}
                   /\ iterables[j].nexts > iterables[j].pos => finished(j)
                   /\ (j < N /\ iterables[j + 1].nexts > 0) => finished(j)
            /\ pc = "start" => \A j \in 1..N : Untouched(iterables[j])
            /\ pc = "completed" =>
                   (out = expected /\ \A j \in 1..N : finished(j))

C21_Witness ==
    /\ op = "chain"
    /\ pc = "L29"
    /\ Len(iterables) = 3
    /\ iterables[1].data = <<1, 2>>
    /\ iterables[2].data = <<>>
    /\ iterables[3].data = <<2, 1>>
    /\ out = <<1, 2, 2>>

----------------------------------------------------------------------------
(* filter: claims *)

RECURSIVE Kept(_, _, _)
\* The elements s[k] that satisfy predicate(s[k], k), k counting from i.
Kept(s, predicate, i) ==
    IF s = <<>> THEN <<>>
    ELSE (IF Test(predicate, Head(s), i) THEN <<Head(s)>> ELSE <<>>)
             \o Kept(Tail(s), predicate, i + 1)

\* C22: filter(s, p) yields, in order, exactly the elements s[k] for which
\* p(s[k], k) is true, k being the 0-based position of the element in the
\* source, rejected elements counted: the predicate is called once on each
\* element pulled, with that position.
C22_FilterKeepsBySourcePosition ==
    (op = "filter") =>
        /\ error = NoError
        /\ log = IndexedCalls(Source, Len(log))
        /\ iterables[1].pos = Len(log)
        /\ out = Kept(SubSeq(Source, 1, Len(log)), options.predicate, 0)
        /\ pc = "completed" =>
               (Len(log) = Len(Source) /\ out = Kept(Source, options.predicate, 0))

C22_Witness ==
    /\ op = "filter"
    /\ pc = "completed"
    /\ options.predicate = "evenIndex"
    /\ Source = <<1, 1, 2, 3>>
    /\ out = <<1, 2>>

----------------------------------------------------------------------------
(* callback index: claims *)

Indexed == {"map", "filter", "flatMap", "peek", "takeWhile"}

\* The number of elements the adapter had produced when it made its j-th
\* callback call, from the calls made before it: map, peek and takeWhile
\* produce one element per earlier call, filter one per earlier call that
\* returned true, flatMap the inner sequences of the earlier calls.
ProducedBefore(j) ==
    CASE op = "filter" ->
           Cardinality({k \in 1..(j - 1) :
                           Test(options.predicate, log[k][1], log[k][2])})
      [] op = "flatMap" ->
           Len(Flatten([k \in 1..(j - 1) |->
                           Map(options.mapping, log[k][1], log[k][2])]))
      [] OTHER -> j - 1

\* C23 as stated: for map, filter, flatMap, peek and takeWhile the index
\* passed to the callback starts at 0 and increments by exactly 1 per element
\* the adapter produces, not per element it consumes from the source.
C23_IndexCountsProduced ==
    (op \in Indexed) =>
        \A j \in 1..Len(log) : log[j][2] = ProducedBefore(j)

\* C23, amended: for map, filter, flatMap, peek and takeWhile the index
\* passed to the callback is the 0-based source position of the element: it
\* starts at 0 and increments by exactly 1 per element the adapter consumes
\* from the source.  For map, peek and takeWhile this is also the number of
\* elements produced before the call.
C23_IndexCountsConsumed ==
    (op \in Indexed) =>
        /\ log = IndexedCalls(Source, Len(log))
        /\ iterables[1].pos = Len(log)
        /\ op \in {"map", "peek", "takeWhile"} =>
               \A j \in 1..Len(log) : log[j][2] = ProducedBefore(j)

C23_Witness ==
    /\ op = "flatMap"
    /\ options.mapping = "pair"
    /\ pc = "L120"
    /\ Len(out) = 3
    /\ log = <<(<<3, 0>>), (<<1, 1>>)>>

----------------------------------------------------------------------------
(* map over filter: claims *)

IsMappingCall(c) == Len(c) = 3

IsPredicateCall(c) == Len(c) = 2

\* C24: a pull on map(filter(s, p), f) pulls from s exactly the elements up
\* to and including the next one that satisfies p and no element after it,
\* and applies f exactly once, to that element; each further pull goes on
\* from there.  A pull that finds no passing element reads s to its end and
\* applies f to nothing.
C24_MapFilterPullsToNextPassing ==
    (op = "mapFilter") =>
        LET it == iterables[1]
            tested == SelectSeq(log, IsPredicateCall)
            mapped == SelectSeq(log, IsMappingCall)
            kept == Kept(SubSeq(Source, 1, it.pos), options.predicate, 0)
        IN  /\ error = NoError
            /\ tested = IndexedCalls(Source, it.pos)
            /\ mapped = [j \in 1..Len(out) |-> <<"mapping", kept[j], j - 1>>]
            /\ Len(kept) = Len(out)
            /\ \A j \in 1..Len(out) :
                   out[j] = Apply(options.mapping, kept[j], j - 1)
            /\ pc = "start" => Untouched(it)
            /\ pc = "L135" =>
                   /\ Test(options.predicate, Source[it.pos], it.pos - 1)
                   /\ log[Len(log)] = <<"mapping", Source[it.pos], Len(out) - 1>>
            /\ pc = "completed" => it.pos = Len(Source)

C24_Witness ==
    /\ op = "mapFilter"
    /\ pc = "L135"
    /\ options.predicate = "notTwo"
    /\ options.mapping = "double"
    /\ Source = <<2, 1, 2, 3>>
    /\ out = <<2>>
    /\ iterables[1].pos = 2

----------------------------------------------------------------------------
(* laziness: claims *)

\* C25 as stated: chunk is lazy: after j pulls that each yielded a chunk,
\* exactly j * size elements have been pulled from the source, so the next
\* element read directly from the source is s[j * size]; the source is not
\* read ahead to decide whether a further chunk exists.
C25_ChunkPullsSizePerChunk ==
    (op = "chunk" /\ pc \in {"L46", "L51", "L54"}) =>
        LET it == iterables[1]
            j == Len(out)
        IN  /\ it.pos = j * options.size
            /\ it.nexts = it.pos

\* C25, amended: after j pulls that each yielded a chunk of size source
\* elements, exactly j * size elements have been pulled from the source and
\* nothing has been read ahead: the next element read directly from the
\* source is s[j * size], or the source reports finished when it has no
\* such element.  The pull that yields an incomplete trailing group, as
\* keepEnd and padEnd do, has read the source to its end: fewer than
\* j * size elements, and the finished-check.
C25_ChunkPullsSizePerFullChunk ==
    (op = "chunk") =>
        LET it == iterables[1]
            j == Len(out)
            size == options.size
            next == IterNext(it)
        IN  /\ pc = "L46" =>
                   /\ it.pos = j * size
                   /\ it.nexts = it.pos
                   /\ ~it.closed
                   /\ IF j * size < Len(Source)
                      THEN ~next.done /\ next.value = Source[j * size + 1]
                      ELSE next.done
            /\ pc \in {"L51", "L54"} =>
                   /\ options.strategy \in {"keepEnd", "padEnd"}
                   /\ it.pos = Len(Source)
                   /\ it.nexts = Len(Source) + 1
                   /\ (j - 1) * size < it.pos
                   /\ it.pos < j * size

C25_Witness ==
    /\ op = "chunk"
    /\ pc = "L46"
    /\ options.size = 2
    /\ Len(Source) = 4
    /\ Len(out) = 1
    /\ iterables[1].pos = 2
    /\ iterables[1].nexts = 2

\* C26: window is lazy: the first pull consumes exactly size elements from
\* the source, or all of them when fewer exist, and every later pull
\* consumes exactly one more as long as the source has one; so after j >= 1
\* yielded windows exactly size + j - 1 source elements have been pulled,
\* and a finished window has consumed the whole source.
C26_WindowPullsSizeThenOne ==
    (op = "window" /\ pc # "rejected") =>
        LET it == iterables[1]
            j == Len(out)
        IN  /\ pc = "start" => Untouched(it)
            /\ pc \in {"L211", "L216"} =>
                   (j >= 1 /\ it.pos = options.size + j - 1)
            /\ pc = "completed" => it.pos = Len(Source)

\* The part of C26 that holds of every source: the elements consumed when
\* a window is yielded; and the whole of it over sources without a
\* return() method.  A source that has one is closed by the first pull once
\* size elements were taken from it, and no later pull consumes anything.
WindowPullsSizeForFirst ==
    (op = "window" /\ pc # "rejected") =>
        LET it == iterables[1]
            j == Len(out)
        IN  /\ pc = "start" => Untouched(it)
            /\ pc \in {"L211", "L216"} =>
                   (j >= 1 /\ it.pos = options.size + j - 1)
            /\ (pc = "completed" /\ ~it.closable) => it.pos = Len(Source)
            /\ (pc # "start" /\ it.closable) =>
                   /\ it.pos = Min(options.size, Len(Source))
                   /\ it.closed = (Len(Source) >= options.size)

ZipYielded == op \in {"zipShortest", "zipLongest", "zipStrict"}
                 /\ pc \in {"L255", "L275", "L293"}

\* C27 as stated: zip advances its sources in lockstep: every pull that
\* yields a tuple has pulled exactly one element from each of the N sources,
\* so after j yielded tuples each source has had exactly j elements consumed.
C27_ZipConsumesOnePerTuple ==
    ZipYielded =>
        \A i \in 1..Len(iterables) :
            /\ iterables[i].pos = Len(out)
            /\ iterables[i].nexts = Len(out)

\* C27, amended: every pull that yields a tuple has asked each of the N
\* sources exactly once, and has pulled one element from every source that
\* still had one; so after j yielded tuples source i has been asked j times
\* and has had min(j, length(s_i)) elements consumed, which is j for every
\* source under "shortest" and "strict", and the next element read directly
\* from source i is s_i[j] when it exists.
C27_ZipAsksEachSourceOncePerTuple ==
    ZipYielded =>
        LET j == Len(out)
        IN  \A i \in 1..Len(iterables) :
                LET it == iterables[i]
                    next == IterNext(it)
                IN  /\ it.nexts = j
                    /\ it.pos = Min(j, Len(it.data))
                    /\ op # "zipLongest" => it.pos = j
                    /\ ~it.closed
                    /\ IF j < Len(it.data)
                       THEN ~next.done /\ next.value = it.data[j + 1]
                       ELSE next.done

C27_Witness ==
    /\ op = "zipShortest"
    /\ pc = "L255"
    /\ Len(iterables) = 2
    /\ Len(iterables[1].data) = 2
    /\ Len(iterables[2].data) = 2
    /\ Len(out) = 1
    /\ iterables[1].pos = 1
    /\ iterables[2].pos = 1

RECURSIVE NextUnequal(_, _, _, _)
\* The first position k or later of an element of s that eq reports unequal
\* to last; Len(s) + 1 if there is none.
NextUnequal(s, eq, last, k) ==
    IF k > Len(s) \/ ~Eq(eq, s[k], last) THEN k
    ELSE NextUnequal(s, eq, last, k + 1)

RECURSIVE YieldedAt(_, _, _)
\* The position in s of the j-th element dedup yields (j >= 1).
YieldedAt(s, eq, j) ==
    IF j = 1 THEN 1
    ELSE LET p == YieldedAt(s, eq, j - 1)
         IN  NextUnequal(s, eq, s[p], p + 1)

\* C28: dedup is lazy and single-pass: the first pull consumes exactly one
\* source element; each later pull consumes source elements up to and
\* including the first one that is not eq-equal to the last yielded element
\* and none after it; every comparison is against the last yielded element,
\* the only state kept.
C28_DedupPullsToNextUnequal ==
    (op = "dedup") =>
        LET it == iterables[1]
            j == Len(out)
        IN  /\ pc = "start" => Untouched(it)
            /\ pc = "L80" => (j = 1 /\ it.pos = 1 /\ it.nexts = 1)
            /\ pc \in {"L80", "L84"} =>
                   /\ it.pos = YieldedAt(Source, options.eq, j)
                   /\ it.nexts = it.pos
                   /\ out[j] = Source[it.pos]
            /\ pc = "completed" =>
                   (it.pos = Len(Source) /\ it.nexts = Len(Source) + 1)
            /\ Len(log) = Max(0, it.pos - 1)
            /\ \A k \in 1..Len(log) :
                   LET yielded == Collapse(SubSeq(Source, 1, k), options.eq, <<>>)
                   IN  log[k] = <<Source[k + 1], yielded[Len(yielded)]>>

C28_Witness ==
    /\ op = "dedup"
    /\ options.eq = "strict"
    /\ pc = "L84"
    /\ Source = <<1, 1, 2, 3>>
    /\ out = <<1, 2>>
    /\ iterables[1].pos = 3

\* C29: calling an adapter (chain, chunk, cycle, dedup, drop, dropWhile,
\* filter, flatMap, map, peek, scan, take, takeWhile, window, zip) pulls no
\* element from any source and invokes no callback, whether the call
\* returns a sequence or raises: until the first pull on the produced
\* sequence every source is untouched and no callback has run.
C29_CallPullsNothing ==
    (pc \in {"start", "rejected"}) =>
        /\ op \in {"chain", "chunk", "cycle", "dedup", "drop", "dropWhile",
                    "filter", "flatMap", "map", "mapFilter", "peek", "scan",
                    "take", "takeWhile", "window", "zip", "zipShortest",
                    "zipLongest", "zipStrict"}
        /\ \A j \in 1..Len(iterables) : Untouched(iterables[j])
        /\ log = <<>>
        /\ out = <<>>
        /\ result = "none"

C29_Witness ==
    /\ op = "scan"
    /\ pc = "start"
    /\ options.initial = 1
    /\ Len(Source) = 3

----------------------------------------------------------------------------
(* errors: claims *)

\* A pull on the sequence has raised.
Raised == pc \notin {"idle", "rejected"} /\ error # NoError

\* C30: once a pull on an adapter's sequence has raised (chunk with "strict"
\* on an incomplete trailing group, zip with "strict" on a length mismatch,
\* an error thrown by a callback), the sequence produces no further element:
\* every later pull reports finished and pulls nothing more from the
\* sources, and no callback runs again.
C30_RaisedSequenceIsFinished ==
    [][Raised =>
          /\ result' = "done"
          /\ UNCHANGED <<op, pc, iterables, out, error, log>>]_vars

C30_Witness ==
    /\ op = "map"
    /\ options.mapping = "bangOnTwo"
    /\ Source = <<1, 2, 3>>
    /\ error = "This should never happen"
    /\ out = <<1>>
    /\ result = "done"

\* The element of a logged callback call: consumer(e, i), predicate(e, i),
\* mapping(e, i), eq(e, last), fold(acc, e, i).
CallElement(c) == IF op = "scan" THEN c[2] ELSE c[1]

\* The callback has been called on the element it throws on.
Thrown == \E k \in 1..Len(log) : Bang(CallElement(log[k]))

\* C31: an error thrown by a caller-supplied predicate, mapping, consumer,
\* eq or fold during a pull is raised from that same pull, unchanged, not
\* caught, wrapped or replaced, and that pull yields no element; and a pull
\* raises no callback error when no callback threw.
C31_CallbackErrorPropagates ==
    [][/\ (~Thrown /\ Thrown') =>
              /\ result' = "throw"
              /\ error' = CallbackError
              /\ out' = out
              /\ pc' = "completed"
       /\ (error' = CallbackError) => Thrown']_vars

C31_Witness ==
    /\ op = "scan"
    /\ options.throwsOn = 3
    /\ Source = <<1, 2, 3, 1>>
    /\ result = "throw"
    /\ error = CallbackError
    /\ Len(out) = 2

----------------------------------------------------------------------------
(* yielded arrays: claims *)

\* C32: every window and every chunk handed to the consumer is a snapshot
\* the adapter never touches again: the contents and length of every array
\* yielded so far are what they were when it was yielded, no two yields
\* hand out the same array, and window never hands out its ring buffer.
C32_YieldedArraysAreSnapshots ==
    (op \in {"window", "chunk"} /\ pc # "rejected") =>
        LET heap == locals.heap
            handed == locals.handed
        IN  /\ Len(handed) = Len(out)
            /\ \A k \in 1..Len(handed) :
                   /\ handed[k] \in 1..Len(heap)
                   /\ heap[handed[k]] = out[k]
            /\ \A k, l \in 1..Len(handed) : k # l => handed[k] # handed[l]
            /\ op = "window" =>
                   /\ \A k \in 1..Len(handed) : handed[k] # 1
                   /\ pc # "start" => heap[1] = locals.arr

C32_Witness ==
    /\ op = "window"
    /\ options.size = 2
    /\ pc = "L216"
    /\ ~iterables[1].closable
    /\ Len(out) = 3
    /\ out[1] # out[3]
    /\ locals.arr # out[1]

----------------------------------------------------------------------------
(* scan and its initial value: claims *)

\* C33: scan called with an initial value yields initial as its first
\* output, followed by one accumulated value per source element.
C33_ScanYieldsInitialFirst ==
    (op = "scan" /\ options.initial # Undefined /\ error = NoError) =>
        /\ Len(out) >= 1 => out[1] = options.initial
        /\ pc = "completed" => Len(out) = Len(Source) + 1

\* C34: when undefined is passed as initial, it is the accumulator of the
\* first fold, which gets index 0, and exactly length(s) values are yielded:
\* the first source element is not taken as the seed.
C34_ScanUndefinedInitialIsUsed ==
    (op = "scan" /\ options.given /\ options.initial = Undefined
        /\ error = NoError) =>
        /\ locals.first = NoLocals.first
        /\ Len(log) = Len(out)
        /\ Len(log) >= 1 => log[1] = <<Undefined, Source[1], 0>>
        /\ pc = "completed" => Len(out) = Len(Source)

----------------------------------------------------------------------------
(* zip and the order of its pulls: claims *)

\* The first source of the shortest length: the one zipShortest finds
\* exhausted.
FirstShortest(its) ==
    CHOOSE j \in 1..Len(its) :
        /\ Len(its[j].data) = Shortest(its)
        /\ \A i \in 1..(j - 1) : Len(its[i].data) > Shortest(its)

\* C35: the terminating pull of zipShortest probes the sources in argument
\* order and stops at the first exhausted one: the sources before it have had
\* one more element consumed than tuples were yielded, the sources after it
\* were not pulled in that step.  zipLongest and zipStrict pull every source
\* on every step, the final one included.
C35_ZipProbeOrder ==
    /\ (op = "zipShortest" /\ pc = "completed" /\ Len(iterables) > 0) =>
           LET j == FirstShortest(iterables)
           IN  \A i \in 1..Len(iterables) :
                   /\ i < j => /\ iterables[i].pos = Len(out) + 1
                               /\ iterables[i].nexts = Len(out) + 1
                   /\ i = j => /\ iterables[i].pos = Len(out)
                               /\ iterables[i].nexts = Len(out) + 1
                   /\ i > j => /\ iterables[i].pos = Len(out)
                               /\ iterables[i].nexts = Len(out)
    /\ (op \in {"zipLongest", "zipStrict"} /\ pc # "start") =>
           \A i \in 1..Len(iterables) :
               iterables[i].nexts =
                   Len(out) + (IF pc = "completed" THEN 1 ELSE 0)

C35_Witness ==
    /\ op = "zipShortest"
    /\ pc = "completed"
    /\ Len(iterables) = 2
    /\ Len(iterables[1].data) = 1
    /\ Len(iterables[2].data) = 2
    /\ Len(out) = 1
    /\ iterables[1].nexts = 2
    /\ iterables[2].nexts = 1

\* C36: zip given no source, with or without an options object, yields no
\* tuple and terminates under each of the strategies shortest, longest and
\* strict: its first pull finds it done.
C36_ZipOfNothingIsEmpty ==
    (op \in {"zipShortest", "zipLongest", "zipStrict"}
        /\ Len(iterables) = 0 /\ pc # "start") =>
        /\ pc = "completed"
        /\ result = "done"
        /\ out = <<>>

----------------------------------------------------------------------------
(* chunk with padEnd: claims *)

\* C37: with strategy "padEnd" chunk yields every complete group and then,
\* when length(s) mod size # 0, one final chunk of exactly size elements:
\* the leftover source elements, unchanged and in order, then fillValue in
\* each remaining position.  No source element is replaced by fillValue.
C37_PadEndKeepsSourceElements ==
    (op = "chunk" /\ options.strategy = "padEnd" /\ pc # "rejected") =>
        LET size == options.size
            n == Len(Source) \div size
            rest == SubSeq(Source, n * size + 1, Len(Source))
            padded == rest \o [j \in 1..(size - Len(rest)) |->
                                  options.fillValue]
            all == IF rest = <<>> THEN Chunks(Source, size)
                   ELSE Append(Chunks(Source, size), padded)
        IN  /\ IsPrefix(out, all)
            /\ pc = "completed" => out = all

----------------------------------------------------------------------------
(* window and its buffer: claims *)

\* C38: window pulls a source that has a return() method to exhaustion as it
\* does any other: the source is not closed when the first size elements
\* have been taken, every remaining element gives one more window, and the
\* output is the one over an array of the same elements.
C38_WindowLeavesSourceOpen ==
    (op = "window" /\ pc # "rejected" /\ iterables[1].closable) =>
        /\ pc \in {"L211", "L216"} => ~iterables[1].closed
        /\ pc = "completed" =>
               /\ iterables[1].pos = Len(Source)
               /\ Len(out) = Max(0, Len(Source) - options.size + 1)
               /\ out = Windows(Source, options.size)

\* window has yielded its first window and has not finished.
Sliding == op = "window" /\ pc \in {"L211", "L216"}

\* The last size elements window has consumed, oldest first.
LastConsumed ==
    SubSeq(Source, iterables[1].pos - options.size + 1, iterables[1].pos)

\* The ring buffer while window slides: size slots, front within them and,
\* after m slides, at m mod size; slot (front + j) mod size holds the j-th
\* oldest of the last size elements consumed.
RingBuffer ==
    Sliding =>
        LET size == options.size
            arr == locals.arr
            front == locals.front
            m == Len(out) - 1
        IN  /\ Len(arr) = size
            /\ front \in 0..(size - 1)
            /\ front = m % size
            /\ \A j \in 0..(size - 1) :
                   arr[((front + j) % size) + 1] = LastConsumed[j + 1]

\* A slide writes one slot of the ring buffer, the one at front, which held
\* the oldest element, and leaves the others as they were.
SlideOverwritesOldest ==
    (Sliding /\ pc' = "L216") =>
        /\ locals.arr[locals.front + 1] = LastConsumed[1]
        /\ locals'.arr[locals.front + 1] = Source[iterables'[1].pos]
        /\ \A i \in 1..options.size :
               i # locals.front + 1 => locals'.arr[i] = locals.arr[i]

\* C39: in every state of window's sliding phase the ring buffer has
\* exactly size slots, 0 <= front < size and front = m mod size after m
\* slides, and slot (front + j) mod size holds the j-th oldest of the last
\* size elements consumed; each slide overwrites exactly one slot, the one
\* that held the oldest element.
C39_WindowRingBuffer == [](RingBuffer) /\ [][SlideOverwritesOldest]_vars

C39_Witness ==
    /\ op = "window"
    /\ pc = "L216"
    /\ options.size = 2
    /\ Source = <<1, 2, 3, 1>>
    /\ Len(out) = 3
    /\ locals.front = 0
    /\ locals.arr = <<3, 1>>

----------------------------------------------------------------------------

Init ==
    /\ op = "none"
    /\ pc = "idle"
    /\ iterables = <<>>
    /\ options = NoOptions
    /\ locals = NoLocals
    /\ out = <<>>
    /\ result = "none"
    /\ error = NoError
    /\ log = <<>>

NextWindow == windowCall \/ windowNext \/ finishedNext

SpecWindow == Init /\ [][NextWindow]_vars

NextChunk == chunkCall \/ chunkNext \/ finishedNext

SpecChunk == Init /\ [][NextChunk]_vars

NextDedup == dedupCall \/ dedupNext \/ finishedNext

SpecDedup == Init /\ [][NextDedup]_vars

NextScan == scanCall \/ scanNext \/ finishedNext

SpecScan == Init /\ [][NextScan]_vars

NextZip ==
    \/ zipCall
    \/ zipShortestNext
    \/ zipLongestNext
    \/ zipStrictNext
    \/ finishedNext

SpecZip == Init /\ [][NextZip]_vars

NextCycle == cycleCall \/ cycleNext

SpecCycle == Init /\ [][NextCycle]_vars

NextTake == takeCall \/ takeNext \/ finishedNext

SpecTake == Init /\ [][NextTake]_vars

NextDrop == dropCall \/ dropNext \/ finishedNext

NextTakeWhile == takeWhileCall \/ takeWhileNext \/ finishedNext

SpecTakeWhile == Init /\ [][NextTakeWhile]_vars

NextDropWhile == dropWhileCall \/ dropWhileNext \/ finishedNext

SpecDropWhile == Init /\ [][NextDropWhile]_vars

NextPeek == peekCall \/ peekNext \/ finishedNext

SpecPeek == Init /\ [][NextPeek]_vars

NextFlatMap == flatMapCall \/ flatMapNext \/ finishedNext

SpecFlatMap == Init /\ [][NextFlatMap]_vars

NextChain == chainCall \/ chainNext \/ finishedNext

SpecChain == Init /\ [][NextChain]_vars

NextFilter == filterCall \/ filterNext \/ finishedNext

SpecFilter == Init /\ [][NextFilter]_vars

NextMap == mapCall \/ mapNext \/ finishedNext

SpecMap == Init /\ [][NextMap]_vars

NextMapFilter == mapFilterCall \/ mapFilterNext \/ finishedNext

SpecMapFilter == Init /\ [][NextMapFilter]_vars

\* The sequences whose pulls can raise: chunk and zip with strategy
\* "strict", and an adapter whose callback throws.
NextRaising ==
    \/ chunkCall
    \/ zipCall
    \/ mapCall
    \/ chunkNext
    \/ zipShortestNext
    \/ zipLongestNext
    \/ zipStrictNext
    \/ mapNext
    \/ finishedNext

SpecRaising == Init /\ [][NextRaising]_vars

NextThrowing ==
    \/ throwingCall
    \/ peekNext
    \/ dedupNext
    \/ dropWhileNext
    \/ flatMapNext
    \/ scanNext
    \/ finishedNext

SpecThrowing == Init /\ [][NextThrowing]_vars

\* The adapters that pass an index to their callback, dropWhile apart.
NextIndexed ==
    \/ mapCall
    \/ filterCall
    \/ flatMapCall
    \/ peekCall
    \/ takeWhileCall
    \/ mapNext
    \/ filterNext
    \/ flatMapNext
    \/ peekNext
    \/ takeWhileNext
    \/ finishedNext

SpecIndexed == Init /\ [][NextIndexed]_vars

SpecDrop == Init /\ [][NextDrop]_vars

\* The adapters that validate a numeric argument.
NextSized ==
    \/ takeCall
    \/ dropCall
    \/ windowCall
    \/ chunkCall
    \/ takeNext
    \/ dropNext
    \/ windowNext
    \/ chunkNext
    \/ finishedNext

SpecSized == Init /\ [][NextSized]_vars

\* The adapters that yield arrays.
NextArrays ==
    \/ windowCall
    \/ chunkCall
    \/ windowNext
    \/ chunkNext
    \/ finishedNext

SpecArrays == Init /\ [][NextArrays]_vars

Next ==
    \/ NextWindow
    \/ NextChunk
    \/ NextDedup
    \/ NextScan
    \/ NextZip
    \/ NextCycle
    \/ NextTake
    \/ NextDrop
    \/ NextTakeWhile
    \/ NextDropWhile
    \/ NextPeek
    \/ NextFlatMap
    \/ NextChain
    \/ NextFilter
    \/ NextMap
    \/ NextMapFilter
    \/ NextThrowing

Spec == Init /\ [][Next]_vars

====
